---- MODULE Spec2Model ----
(***************************************************************************)
(* ViaText node (TTGO LoRa32): the frame interpreter of node_interface.cpp *)
(* and its wiring in main.cpp, as a state machine.                         *)
(*                                                                         *)
(* Bytes are integers 0..255.  A C buffer is a sequence of bytes of the    *)
(* buffer's size; the C string it holds is the prefix before the first 0.  *)
(* A frame handed to the interpreter is a pointer and a length: the model  *)
(* carries the bytes of the frame and the bytes that lie behind it in      *)
(* memory (tail), so that a read at an index >= len is a read of bytes the *)
(* frame does not own, with whatever content they have.                    *)
(* TLC integers are 32 bit signed: u32 values are drawn below 2^31.        *)
(***************************************************************************)
EXTENDS Integers, Sequences, FiniteSets, TLC

VARIABLES
  pc,        \* "boot" | "idle" | "handled" | "crashed": position of the main program
  node,      \* the RAM globals of node_interface.cpp (s_id, s_alias, s_sf, ...)
  nvs,       \* the persistent store: NoStore (no key written) or the saved record
  g_ok,      \* node_display.cpp g_ok: display available
  call,      \* the call of node_interface_on_packet in progress / just returned
  millis_s,  \* millis() / 1000 at the last read of the clock since boot
  nsteps,    \* frames handled, handler changes and power cycles so far
  g_handler  \* node_protocol.cpp g_handler: "null" or the function installed

vars == <<pc, node, nvs, g_ok, call, millis_s, nsteps, g_handler>>

-----------------------------------------------------------------------------
(* Bounds of the model *)

\* frames handled, handler changes and power cycles in one run
MaxSteps == 2
\* records in the longest GET_PARAM request of the input set
FloodRecs == 22
\* largest millis()/1000 the clock is read at
MaxUptime == 1

-----------------------------------------------------------------------------
(* enum Verb *)
GET_ID == 1
SET_ID == 2
PING == 3
MSG == 32
GET_PARAM == 16
SET_PARAM == 17
GET_ALL == 18
RESP_OK == 144
RESP_ERR == 145

(* enum Tag *)
TAG_ID == 1
TAG_ALIAS == 2
TAG_FW_VERSION == 3
TAG_UPTIME_S == 4
TAG_BOOT_TIME == 5
TAG_FREQ_HZ == 16
TAG_SF == 17
TAG_BW_HZ == 18
TAG_CR == 19
TAG_TX_PWR_DBM == 20
TAG_CHAN == 21
TAG_MODE == 32
TAG_HOPS == 33
TAG_BEACON_SEC == 34
TAG_BUF_SIZE == 35
TAG_ACK_MODE == 36
TAG_RSSI_DBM == 48
TAG_SNR_DB == 49
TAG_VBAT_MV == 50
TAG_TEMP_C10 == 51
TAG_FREE_MEM == 52
TAG_FREE_FLASH == 53
TAG_LOG_COUNT == 54

(* buffer sizes *)
\* sizeof(s_id), sizeof(s_alias), sizeof(tmp)
IdCap == 32
\* sizeof(s_last_text)
TextCap == 64
\* response buffers b[64], b[128], b[192], b[8]
CapSmall == 64
CapParam == 128
CapAll == 192
CapErr == 8

-----------------------------------------------------------------------------
(* Bytes, buffers and C strings *)

Rep(b, k) == [i \in 1..k |-> b]

Min(a, b) == IF a < b THEN a ELSE b

\* text of a literal, as bytes
Str_HckrMn == <<72, 99, 107, 114, 77, 110>>
Str_1_0_0 == <<49, 46, 48, 46, 48>>
Str_RX_Msg == <<82, 88, 32, 77, 115, 103, 58>>

\* strnlen(buf, cap): index of the first 0 among the first cap bytes, else cap
StrnlenFrom(buf, i, cap) ==
  LET m == Min(cap, Len(buf))
  IN IF \E j \in i..m : buf[j] = 0
     THEN (CHOOSE j \in i..m : buf[j] = 0 /\ \A k \in i..(j - 1) : buf[k] # 0) - 1
     ELSE IF i > m THEN i - 1 ELSE m

Strnlen(buf, cap) == StrnlenFrom(buf, 1, cap)

\* the C string a buffer holds (the model's buffers always hold a 0)
CStr(buf) == SubSeq(buf, 1, Strnlen(buf, Len(buf)))

\* a buffer of cap bytes holding the string s and zeros behind it
ZBuf(s, cap) == [i \in 1..cap |-> IF i <= Len(s) THEN s[i] ELSE 0]

\* strncpy(dst, src, n): copies src up to its first 0, pads with 0 up to n bytes,
\* writes no terminator when src has n or more bytes before its first 0
Strncpy(dst, src, n) ==
  LET k == Strnlen(src, n)
  IN [i \in 1..Len(dst) |-> IF i <= k THEN src[i] ELSE IF i <= n THEN 0 ELSE dst[i]]

\* a variant of the copy that leaves out the terminator s_last_text[copy] = 0
MemcpyZ_no_term(dst, src, n) ==
  [i \in 1..Len(dst) |-> IF i <= n THEN src[i] ELSE dst[i]]

\* memcpy(dst, src, n); dst[n] = 0
MemcpyZ(dst, src, n) ==
  [i \in 1..Len(dst) |-> IF i <= n THEN src[i] ELSE IF i = n + 1 THEN 0 ELSE dst[i]]

-----------------------------------------------------------------------------
(* Little-endian integers: tlv_put_le<T> / tlv_read_le<T> *)

Pow256(j) == CASE j = 0 -> 1 [] j = 1 -> 256 [] j = 2 -> 65536 [] j = 3 -> 16777216

\* the value of a signed T seen through (value >> 8*j) & 0xFF
Unsigned(v, w) == IF v >= 0 THEN v ELSE v + Pow256(w)

\* static_cast<T>(byte pattern) for a signed T of w bytes
Signed(u, w) == IF 2 * u >= Pow256(w) THEN u - Pow256(w) ELSE u

LEBytes(v, w) == [j \in 1..w |-> (Unsigned(v, w) \div Pow256(j - 1)) % 256]

RECURSIVE LESum(_, _)
LESum(bs, j) == IF j > Len(bs) THEN 0 ELSE bs[j] * Pow256(j - 1) + LESum(bs, j + 1)

\* width and signedness of the type T used for each numeric tag
TagWidth(t) ==
  CASE t \in {TAG_FREQ_HZ, TAG_BW_HZ, TAG_BEACON_SEC, TAG_UPTIME_S, TAG_BOOT_TIME,
              TAG_FREE_MEM, TAG_FREE_FLASH} -> 4
    [] t \in {TAG_BUF_SIZE, TAG_RSSI_DBM, TAG_VBAT_MV, TAG_TEMP_C10, TAG_LOG_COUNT} -> 2
    [] OTHER -> 1

TagSigned(t) == t \in {TAG_TX_PWR_DBM, TAG_RSSI_DBM, TAG_SNR_DB, TAG_TEMP_C10}

\* tlv_read_le<T>(p, len, out): fails unless len = sizeof(T)
tlv_read_le(bs, len, w, signed) ==
  IF len # w THEN [ok |-> FALSE, v |-> 0]
  ELSE [ok |-> TRUE, v |-> IF signed THEN Signed(LESum(bs, 1), w) ELSE LESum(bs, 1)]

-----------------------------------------------------------------------------
(* Frame building: frame_begin / tlv_put / tlv_put_le / frame_end *)

frame_begin(verb, seq) == <<verb, 0, seq, 0>>

tlv_put(buf, tag, p, len) == buf \o <<tag, len>> \o SubSeq(p, 1, len)

tlv_put_le(buf, tag, v, w) == tlv_put(buf, tag, LEBytes(v, w), w)

\* buf[3] = (uint8_t)(i - 4)
frame_end(buf) == [buf EXCEPT ![4] = (Len(buf) - 4) % 256]

-----------------------------------------------------------------------------
(* The RAM globals and the persistent store *)

\* static initialisers of node_interface.cpp
DefaultNode ==
  [ s_prefs_open |-> FALSE,
    s_id |-> ZBuf(Str_HckrMn, IdCap),
    s_alias |-> ZBuf(<<>>, IdCap),
    s_freq_hz |-> 915000000,
    s_sf |-> 9,
    s_bw_hz |-> 125000,
    s_cr |-> 5,
    s_tx_pwr |-> 17,
    s_chan |-> 0,
    s_mode |-> 0,
    s_hops |-> 1,
    s_beacon_s |-> 0,
    s_buf_size |-> 32,
    s_ack_mode |-> 0,
    s_last_text |-> ZBuf(<<>>, TextCap) ]

\* the fields SET_ID and SET_PARAM configure
ConfigFields ==
  {"s_id", "s_alias", "s_freq_hz", "s_sf", "s_bw_hz", "s_cr", "s_tx_pwr", "s_chan",
   "s_mode", "s_hops", "s_beacon_s", "s_buf_size", "s_ack_mode"}

\* alias and the radio and behavior parameters
ParamFields == ConfigFields \ {"s_id"}

\* the store before any key was written
NoStore == [written |-> FALSE]

\* what the keys of the "viatext" namespace hold after save_to_nvs
StoreOf(n) ==
  [ written |-> TRUE,
    id |-> CStr(n.s_id),
    alias |-> CStr(n.s_alias),
    freq_hz |-> n.s_freq_hz,
    sf |-> n.s_sf,
    bw_hz |-> n.s_bw_hz,
    cr |-> n.s_cr,
    tx_pwr |-> n.s_tx_pwr,
    chan |-> n.s_chan,
    mode |-> n.s_mode,
    hops |-> n.s_hops,
    beacon_s |-> n.s_beacon_s,
    buf_size |-> n.s_buf_size,
    ack_mode |-> n.s_ack_mode ]

\* a variant of getString that leaves the buffer as it is
GetString_skip(buf, s) == buf

\* getString(key, buf, cap): the stored string and its terminator over the buffer
GetString(buf, s) == [i \in 1..Len(buf) |-> IF i <= Len(s) THEN s[i] ELSE IF i = Len(s) + 1 THEN 0 ELSE buf[i]]

\* a variant of the loader that opens the store and reads no key
load_from_nvs_keep(n, store, begin_ok) == [n EXCEPT !.s_prefs_open = begin_ok]

\* load_from_nvs(): begin_ok is the result of s_prefs.begin("viatext", false)
load_from_nvs(n, store, begin_ok) ==
  IF ~begin_ok THEN [n EXCEPT !.s_prefs_open = FALSE]
  ELSE IF ~store.written THEN [n EXCEPT !.s_prefs_open = TRUE]
  ELSE [n EXCEPT !.s_prefs_open = TRUE,
                 !.s_id = GetString(n.s_id, store.id),
                 !.s_alias = GetString(n.s_alias, store.alias),
                 !.s_freq_hz = store.freq_hz,
                 !.s_sf = store.sf,
                 !.s_bw_hz = store.bw_hz,
                 !.s_cr = store.cr,
                 !.s_tx_pwr = store.tx_pwr,
                 !.s_chan = store.chan,
                 !.s_mode = store.mode,
                 !.s_hops = store.hops,
                 !.s_beacon_s = store.beacon_s,
                 !.s_buf_size = store.buf_size,
                 !.s_ack_mode = store.ack_mode]

-----------------------------------------------------------------------------
(* Observable events of one call, in program order *)

Ev(k, d) == [k |-> k, d |-> d]

\* protocol_send(b, i)
EvSend(f) == Ev("send", f)

\* the put* calls of save_to_nvs
EvPut == Ev("nvs_put", <<>>)

\* the frames sent, in order
RECURSIVE Sent(_)
Sent(ev) ==
  IF ev = <<>> THEN <<>>
  ELSE IF Head(ev).k = "send" THEN <<Head(ev).d>> \o Sent(Tail(ev))
  ELSE Sent(Tail(ev))

\* a step of the interpreter: the globals, the store and the events so far
\* (ovf: a response grew past its buffer)
St(n, store, ev, ovf) == [node |-> n, nvs |-> store, ev |-> ev, ovf |-> ovf]

\* s_prefs.begin("viatext", false) was called and returned ok
EvBegin(ok) == Ev("nvs_begin", <<IF ok THEN 1 ELSE 0>>)

\* a variant of save_to_nvs that gives up for good once the store failed to open
save_to_nvs_no_retry(s, begin_ok) ==
  IF ~s.node.s_prefs_open THEN s
  ELSE St(s.node, StoreOf(s.node), Append(s.ev, EvPut), s.ovf)

\* save_to_nvs(): opens the store if it is not open, then writes every key
save_to_nvs(s, begin_ok) ==
  IF s.node.s_prefs_open
  THEN St(s.node, StoreOf(s.node), Append(s.ev, EvPut), s.ovf)
  ELSE IF ~begin_ok THEN [s EXCEPT !.ev = Append(@, EvBegin(FALSE))]
  ELSE St([s.node EXCEPT !.s_prefs_open = TRUE], StoreOf(s.node),
          s.ev \o <<EvBegin(TRUE), EvPut>>, s.ovf)

\* node_display_draw_id(id): no-op unless g_ok
node_display_draw_id(s, disp, id) ==
  IF disp THEN [s EXCEPT !.ev = Append(@, Ev("draw_id", id))] ELSE s

\* a variant of node_display_draw_two_lines without the guard on g_ok
node_display_draw_two_lines_unguarded(s, disp, a, b) ==
  [s EXCEPT !.ev = Append(@, Ev("draw_two_lines", a \o <<0>> \o b))]

\* node_display_draw_two_lines(a, b): no-op unless g_ok
node_display_draw_two_lines(s, disp, a, b) ==
  IF disp THEN [s EXCEPT !.ev = Append(@, Ev("draw_two_lines", a \o <<0>> \o b))] ELSE s

\* finalize + send: frame_end(b, i); protocol_send(b, i) on a buffer of cap bytes
SendFrame(s, buf, cap) ==
  [s EXCEPT !.ev = Append(@, EvSend(frame_end(buf))), !.ovf = @ \/ Len(buf) > cap]

-----------------------------------------------------------------------------
(* send_tag_value(): the TLV of one tag appended to the response *)

\* the tags send_tag_value has a case for
KnownTags ==
  {TAG_ID, TAG_ALIAS, TAG_FW_VERSION, TAG_UPTIME_S, TAG_BOOT_TIME,
   TAG_FREQ_HZ, TAG_SF, TAG_BW_HZ, TAG_CR, TAG_TX_PWR_DBM, TAG_CHAN,
   TAG_MODE, TAG_HOPS, TAG_BEACON_SEC, TAG_BUF_SIZE, TAG_ACK_MODE,
   TAG_RSSI_DBM, TAG_SNR_DB, TAG_VBAT_MV, TAG_TEMP_C10, TAG_FREE_MEM,
   TAG_FREE_FLASH, TAG_LOG_COUNT}

\* a variant in which the RSSI placeholder follows the spreading factor
NumValue_live(n, up, tag) ==
  CASE tag = TAG_UPTIME_S -> up
    [] tag = TAG_BOOT_TIME -> 0
    [] tag = TAG_FREQ_HZ -> n.s_freq_hz
    [] tag = TAG_SF -> n.s_sf
    [] tag = TAG_BW_HZ -> n.s_bw_hz
    [] tag = TAG_CR -> n.s_cr
    [] tag = TAG_TX_PWR_DBM -> n.s_tx_pwr
    [] tag = TAG_CHAN -> n.s_chan
    [] tag = TAG_MODE -> n.s_mode
    [] tag = TAG_HOPS -> n.s_hops
    [] tag = TAG_BEACON_SEC -> n.s_beacon_s
    [] tag = TAG_BUF_SIZE -> n.s_buf_size
    [] tag = TAG_ACK_MODE -> n.s_ack_mode
    [] tag = TAG_RSSI_DBM -> -(n.s_sf * 5)
    [] tag = TAG_SNR_DB -> 7
    [] tag = TAG_VBAT_MV -> 3700
    [] tag = TAG_TEMP_C10 -> 215
    [] tag = TAG_FREE_MEM -> 123456
    [] tag = TAG_FREE_FLASH -> 654321
    [] tag = TAG_LOG_COUNT -> 0

\* the integer send_tag_value encodes for a numeric tag (up: millis() / 1000)
NumValue(n, up, tag) ==
  CASE tag = TAG_UPTIME_S -> up
    [] tag = TAG_BOOT_TIME -> 0
    [] tag = TAG_FREQ_HZ -> n.s_freq_hz
    [] tag = TAG_SF -> n.s_sf
    [] tag = TAG_BW_HZ -> n.s_bw_hz
    [] tag = TAG_CR -> n.s_cr
    [] tag = TAG_TX_PWR_DBM -> n.s_tx_pwr
    [] tag = TAG_CHAN -> n.s_chan
    [] tag = TAG_MODE -> n.s_mode
    [] tag = TAG_HOPS -> n.s_hops
    [] tag = TAG_BEACON_SEC -> n.s_beacon_s
    [] tag = TAG_BUF_SIZE -> n.s_buf_size
    [] tag = TAG_ACK_MODE -> n.s_ack_mode
    [] tag = TAG_RSSI_DBM -> -42
    [] tag = TAG_SNR_DB -> 7
    [] tag = TAG_VBAT_MV -> 3700
    [] tag = TAG_TEMP_C10 -> 215
    [] tag = TAG_FREE_MEM -> 123456
    [] tag = TAG_FREE_FLASH -> 654321
    [] tag = TAG_LOG_COUNT -> 0

send_tag_value(buf, n, up, tag) ==
  CASE tag = TAG_ID -> tlv_put(buf, TAG_ID, n.s_id, Strnlen(n.s_id, IdCap))
    [] tag = TAG_ALIAS -> tlv_put(buf, TAG_ALIAS, n.s_alias, Strnlen(n.s_alias, IdCap))
    [] tag = TAG_FW_VERSION -> tlv_put(buf, tag, Str_1_0_0, Len(Str_1_0_0))
    [] tag \in KnownTags \ {TAG_ID, TAG_ALIAS, TAG_FW_VERSION} ->
         tlv_put_le(buf, tag, NumValue(n, up, tag), TagWidth(tag))
    [] OTHER -> buf

RECURSIVE SendTags(_, _, _, _)
SendTags(buf, n, up, tags) ==
  IF tags = <<>> THEN buf
  ELSE SendTags(send_tag_value(buf, n, up, Head(tags)), n, up, Tail(tags))

\* send_resp_err(seq)
send_resp_err(s, seq) == SendFrame(s, frame_begin(RESP_ERR, seq), CapErr)

\* RESP_OK with TAG_ID: the block shared by GET_ID, PING, SET_ID and MSG
SendOkId(s, seq) ==
  SendFrame(s, send_tag_value(frame_begin(RESP_OK, seq), s.node, 0, TAG_ID), CapSmall)

\* node_interface_send_hello()
node_interface_send_hello(s) == SendOkId(s, 0)

-----------------------------------------------------------------------------
(* Reading the request: frame[i], tlv_find, the validators *)

\* frame[i], i counted from 0: the frame's byte, or for i >= len the byte that
\* lies behind the frame in memory
Rd(in, i) ==
  IF i < Len(in.frame) THEN in.frame[i + 1]
  ELSE IF i - Len(in.frame) < Len(in.tail) THEN in.tail[i - Len(in.frame) + 1]
  ELSE 0

\* the n bytes at p = frame + off
RdBytes(in, off, n) == [j \in 1..n |-> Rd(in, off + j - 1)]

NotFound == [found |-> FALSE, off |-> 0, L |-> 0]

\* a variant of the loop of tlv_find that compares the tag before it checks
\* that the value fits into the region
RECURSIVE tlv_scan_match_first(_, _, _, _)
tlv_scan_match_first(in, off, end, tag) ==
  IF off + 2 <= end
  THEN LET t == Rd(in, off)
           L == Rd(in, off + 1)
       IN IF t = tag THEN [found |-> TRUE, off |-> off + 2, L |-> L]
          ELSE IF off + 2 + L > end THEN NotFound
          ELSE tlv_scan_match_first(in, off + 2 + L, end, tag)
  ELSE NotFound

\* a variant of the loop of tlv_find that passes over empty records of the tag
RECURSIVE tlv_scan_skip_empty(_, _, _, _)
tlv_scan_skip_empty(in, off, end, tag) ==
  IF off + 2 <= end
  THEN LET t == Rd(in, off)
           L == Rd(in, off + 1)
       IN IF off + 2 + L > end THEN NotFound
          ELSE IF t = tag /\ L # 0 THEN [found |-> TRUE, off |-> off + 2, L |-> L]
          ELSE tlv_scan_skip_empty(in, off + 2 + L, end, tag)
  ELSE NotFound

RECURSIVE tlv_scan(_, _, _, _)
tlv_scan(in, off, end, tag) ==
  IF off + 2 <= end
  THEN LET t == Rd(in, off)
           L == Rd(in, off + 1)
       IN IF off + 2 + L > end THEN NotFound
          ELSE IF t = tag THEN [found |-> TRUE, off |-> off + 2, L |-> L]
          ELSE tlv_scan(in, off + 2 + L, end, tag)
  ELSE NotFound

\* tlv_find(frame, len, tag, out_len): the first record with the tag
tlv_find(in, tag) ==
  IF Len(in.frame) < 4 THEN NotFound
  ELSE IF 4 + Rd(in, 3) > Len(in.frame) THEN NotFound
  ELSE tlv_scan(in, 4, 4 + Rd(in, 3), tag)

\* the whitelist of is_valid_id: a..z, A..Z, 0..9, '-', '_'
IdCharOk(c) ==
  \/ (c >= 97 /\ c <= 122)
  \/ (c >= 65 /\ c <= 90)
  \/ (c >= 48 /\ c <= 57)
  \/ c = 45
  \/ c = 95

\* a variant of is_valid_id whose upper length bound is off by one (n >= 31)
is_valid_id_short(p) ==
  LET n == Strnlen(p, Len(p))
  IN /\ ~(n = 0 \/ n >= 31)
     /\ \A i \in 1..n : IdCharOk(p[i])

\* a variant of is_valid_id that leaves out the loop over the characters
is_valid_id_any_char(p) ==
  LET n == Strnlen(p, Len(p))
  IN ~(n = 0 \/ n > 31)

\* is_valid_id(p): p is a C string, n = strlen(p)
is_valid_id(p) ==
  LET n == Strnlen(p, Len(p))
  IN /\ ~(n = 0 \/ n > 31)
     /\ \A i \in 1..n : IdCharOk(p[i])

\* a variant of is_valid_sf whose upper bound is off by one
is_valid_sf_wide(v) == v >= 7 /\ v <= 13

is_valid_sf(v) == v >= 7 /\ v <= 12

\* a variant of is_valid_cr whose lower bound is off by one
is_valid_cr_wide(v) == v >= 4 /\ v <= 8

is_valid_cr(v) == v >= 5 /\ v <= 8

is_valid_ack(v) == v = 0 \/ v = 1

-----------------------------------------------------------------------------
(* node_interface_on_packet(): one branch per verb *)

\* a variant of case GET_ID / PING that answers like the hello, with seq 0
OnGetId_hello(s, seq) == SendOkId(s, 0)

\* case GET_ID / PING
OnGetId(s, seq) == SendOkId(s, seq)

\* a variant of case SET_ID that acknowledges before it persists and redraws
OnSetId_ack_first(s, in, seq, e) ==
  LET f == tlv_find(in, TAG_ID)
  IN IF ~f.found \/ f.L = 0 THEN send_resp_err(s, seq)
     ELSE LET copy == IF f.L >= IdCap THEN IdCap - 1 ELSE f.L
              tmp == RdBytes(in, f.off, copy) \o <<0>>
          IN IF ~is_valid_id(tmp) THEN send_resp_err(s, seq)
             ELSE LET s1 == [s EXCEPT !.node.s_id = Strncpy(@, tmp, IdCap)]
                      s2 == SendOkId(s1, seq)
                      s3 == save_to_nvs(s2, e.begin_ok)
                      s4 == node_display_draw_id(s3, e.g_ok, CStr(s3.node.s_id))
                  IN node_interface_send_hello(s4)

\* case SET_ID
OnSetId(s, in, seq, e) ==
  LET f == tlv_find(in, TAG_ID)
  IN IF ~f.found \/ f.L = 0 THEN send_resp_err(s, seq)
     ELSE LET copy == IF f.L >= IdCap THEN IdCap - 1 ELSE f.L
              tmp == RdBytes(in, f.off, copy) \o <<0>>
          IN IF ~is_valid_id(tmp) THEN send_resp_err(s, seq)
             ELSE LET s1 == [s EXCEPT !.node.s_id = Strncpy(@, tmp, IdCap)]
                      s2 == save_to_nvs(s1, e.begin_ok)
                      s3 == node_display_draw_id(s2, e.g_ok, CStr(s2.node.s_id))
                      s4 == SendOkId(s3, seq)
                  IN node_interface_send_hello(s4)

\* the while loop of case GET_PARAM: the response after the records from off on
RECURSIVE GetParamScan(_, _, _, _, _, _)
GetParamScan(buf, n, up, in, off, end) ==
  IF off + 2 <= end
  THEN LET t == Rd(in, off)
           L == Rd(in, off + 1)
       IN GetParamScan(IF L = 0 THEN send_tag_value(buf, n, up, t) ELSE buf,
                       n, up, in, off + 2 + L, end)
  ELSE buf

\* case GET_PARAM
OnGetParam(s, in, seq, e) ==
  SendFrame(s, GetParamScan(frame_begin(RESP_OK, seq), s.node, e.up, in, 4, 4 + Rd(in, 3)),
            CapParam)

\* tlv_read_le<T>(p, L, out) with the T of the tag, p = frame + poff
ReadTlv(in, poff, L, tag) ==
  tlv_read_le(RdBytes(in, poff, TagWidth(tag)), L, TagWidth(tag), TagSigned(tag))

\* ok &= tlv_read_le<T>(p, L, s_field): the field is written iff the read succeeds
ReadInto(n, fld, in, poff, L, tag) ==
  LET r == ReadTlv(in, poff, L, tag)
  IN [node |-> IF r.ok THEN [n EXCEPT ![fld] = r.v] ELSE n, ok |-> r.ok]

\* if (tlv_read_le(p, L, v) && is_valid(v)) s_field = v; else ok = false;
Checked(n, fld, r, good) ==
  IF good THEN [node |-> [n EXCEPT ![fld] = r.v], ok |-> TRUE]
  ELSE [node |-> n, ok |-> FALSE]

\* the switch (t) of case SET_PARAM, for the record (t, L, p = frame + poff)
ApplyTlv(n, in, t, L, poff) ==
  CASE t = TAG_ALIAS ->
         LET k == Min(L, IdCap - 1)
         IN [node |-> [n EXCEPT !.s_alias = Strncpy(@, RdBytes(in, poff, k), k)], ok |-> TRUE]
    [] t = TAG_FREQ_HZ -> ReadInto(n, "s_freq_hz", in, poff, L, t)
    [] t = TAG_SF ->
         LET r == ReadTlv(in, poff, L, t)
         IN Checked(n, "s_sf", r, r.ok /\ is_valid_sf(r.v))
    [] t = TAG_BW_HZ -> ReadInto(n, "s_bw_hz", in, poff, L, t)
    [] t = TAG_CR ->
         LET r == ReadTlv(in, poff, L, t)
         IN Checked(n, "s_cr", r, r.ok /\ is_valid_cr(r.v))
    [] t = TAG_TX_PWR_DBM -> ReadInto(n, "s_tx_pwr", in, poff, L, t)
    [] t = TAG_CHAN -> ReadInto(n, "s_chan", in, poff, L, t)
    [] t = TAG_MODE -> ReadInto(n, "s_mode", in, poff, L, t)
    [] t = TAG_HOPS -> ReadInto(n, "s_hops", in, poff, L, t)
    [] t = TAG_BEACON_SEC -> ReadInto(n, "s_beacon_s", in, poff, L, t)
    [] t = TAG_BUF_SIZE -> ReadInto(n, "s_buf_size", in, poff, L, t)
    [] t = TAG_ACK_MODE ->
         LET r == ReadTlv(in, poff, L, t)
         IN Checked(n, "s_ack_mode", r, r.ok /\ is_valid_ack(r.v))
    [] OTHER -> [node |-> n, ok |-> TRUE]

\* a variant of the loop that has a case for TAG_ID as well
RECURSIVE SetParamScan_with_id(_, _, _, _, _)
SetParamScan_with_id(n, ok, in, off, end) ==
  IF off + 2 <= end
  THEN LET t == Rd(in, off)
           L == Rd(in, off + 1)
           k == Min(L, IdCap - 1)
           r == IF t = TAG_ID
                THEN [node |-> [n EXCEPT !.s_id = Strncpy(@, RdBytes(in, off + 2, k) \o <<0>>, IdCap)],
                      ok |-> TRUE]
                ELSE ApplyTlv(n, in, t, L, off + 2)
       IN SetParamScan_with_id(r.node, ok /\ r.ok, in, off + 2 + L, end)
  ELSE [node |-> n, ok |-> ok]

\* the while loop of case SET_PARAM: globals and ok after the records from off on
RECURSIVE SetParamScan(_, _, _, _, _)
SetParamScan(n, ok, in, off, end) ==
  IF off + 2 <= end
  THEN LET t == Rd(in, off)
           L == Rd(in, off + 1)
           r == ApplyTlv(n, in, t, L, off + 2)
       IN SetParamScan(r.node, ok /\ r.ok, in, off + 2 + L, end)
  ELSE [node |-> n, ok |-> ok]

\* a variant of the echo order with FREQ_HZ and SF exchanged
SettableTags_swapped ==
  <<TAG_ALIAS, TAG_SF, TAG_FREQ_HZ, TAG_BW_HZ, TAG_CR, TAG_TX_PWR_DBM, TAG_CHAN,
    TAG_MODE, TAG_HOPS, TAG_BEACON_SEC, TAG_BUF_SIZE, TAG_ACK_MODE>>

\* the tags SET_PARAM echoes, in the order of the send_tag_value calls
SettableTags ==
  <<TAG_ALIAS, TAG_FREQ_HZ, TAG_SF, TAG_BW_HZ, TAG_CR, TAG_TX_PWR_DBM, TAG_CHAN,
    TAG_MODE, TAG_HOPS, TAG_BEACON_SEC, TAG_BUF_SIZE, TAG_ACK_MODE>>

\* a variant of case SET_PARAM that saves before it looks at ok
OnSetParam_save_first(s, in, seq, e) ==
  LET r == SetParamScan(s.node, TRUE, in, 4, 4 + Rd(in, 3))
      s1 == [s EXCEPT !.node = r.node]
      s2 == save_to_nvs(s1, e.begin_ok)
  IN IF ~r.ok THEN send_resp_err(s2, seq)
     ELSE SendFrame(s2, SendTags(frame_begin(RESP_OK, seq), s2.node, e.up, SettableTags),
                    CapParam)

\* case SET_PARAM
OnSetParam(s, in, seq, e) ==
  LET r == SetParamScan(s.node, TRUE, in, 4, 4 + Rd(in, 3))
      s1 == [s EXCEPT !.node = r.node]
  IN IF ~r.ok THEN send_resp_err(s1, seq)
     ELSE LET s2 == save_to_nvs(s1, e.begin_ok)
          IN SendFrame(s2, SendTags(frame_begin(RESP_OK, seq), s2.node, e.up, SettableTags),
                       CapParam)

\* the initializer list of case GET_ALL
GetAllTags ==
  <<TAG_ID, TAG_ALIAS, TAG_FREQ_HZ, TAG_SF, TAG_BW_HZ, TAG_CR, TAG_TX_PWR_DBM,
    TAG_CHAN, TAG_MODE, TAG_HOPS, TAG_BEACON_SEC, TAG_BUF_SIZE, TAG_ACK_MODE,
    TAG_RSSI_DBM, TAG_SNR_DB, TAG_VBAT_MV, TAG_TEMP_C10, TAG_FREE_MEM, TAG_FREE_FLASH,
    TAG_LOG_COUNT>>

\* a variant of case GET_ALL that also calls save_to_nvs
OnGetAll_saves(s, seq, e) ==
  LET s1 == save_to_nvs(s, e.begin_ok)
  IN SendFrame(s1, SendTags(frame_begin(RESP_OK, seq), s1.node, e.up, GetAllTags), CapAll)

\* case GET_ALL
OnGetAll(s, seq, e) ==
  SendFrame(s, SendTags(frame_begin(RESP_OK, seq), s.node, e.up, GetAllTags), CapAll)

\* case MSG
OnMsg(s, in, seq, e) ==
  LET L == Rd(in, 3)
  IN IF Len(in.frame) < 4 + L THEN send_resp_err(s, seq)
     ELSE LET copy == IF L >= TextCap THEN TextCap - 1 ELSE L
              s1 == [s EXCEPT !.node.s_last_text = MemcpyZ(@, RdBytes(in, 4, copy), copy)]
              s2 == node_display_draw_two_lines(s1, e.g_ok, Str_RX_Msg, CStr(s1.node.s_last_text))
              s3 == [s2 EXCEPT !.ev = Append(@, Ev("printf", CStr(s1.node.s_last_text)))]
          IN SendOkId(s3, seq)

\* a variant of the dispatcher whose default case returns without a response
node_interface_on_packet_silent(s, in, e) ==
  IF in.null \/ Len(in.frame) < 4 THEN s
  ELSE LET verb == Rd(in, 0)
           seq == Rd(in, 2)
       IN CASE verb = GET_ID \/ verb = PING -> OnGetId(s, seq)
            [] verb = SET_ID -> OnSetId(s, in, seq, e)
            [] verb = GET_PARAM -> OnGetParam(s, in, seq, e)
            [] verb = SET_PARAM -> OnSetParam(s, in, seq, e)
            [] verb = GET_ALL -> OnGetAll(s, seq, e)
            [] verb = MSG -> OnMsg(s, in, seq, e)
            [] OTHER -> s

\* a variant of the guard that lets a 3-byte frame through
node_interface_on_packet_guard3(s, in, e) ==
  IF in.null \/ Len(in.frame) < 3 THEN s
  ELSE LET verb == Rd(in, 0)
           seq == Rd(in, 2)
       IN CASE verb = GET_ID \/ verb = PING -> OnGetId(s, seq)
            [] verb = SET_ID -> OnSetId(s, in, seq, e)
            [] verb = GET_PARAM -> OnGetParam(s, in, seq, e)
            [] verb = SET_PARAM -> OnSetParam(s, in, seq, e)
            [] verb = GET_ALL -> OnGetAll(s, seq, e)
            [] verb = MSG -> OnMsg(s, in, seq, e)
            [] OTHER -> send_resp_err(s, seq)

\* node_interface_on_packet(frame, len) in the environment e: e.g_ok the display
\* flag, e.begin_ok the result of s_prefs.begin() should save_to_nvs call it,
\* e.up the value of millis() / 1000 should send_tag_value read it
node_interface_on_packet(s, in, e) ==
  IF in.null \/ Len(in.frame) < 4 THEN s
  ELSE LET verb == Rd(in, 0)
           seq == Rd(in, 2)
       IN CASE verb = GET_ID \/ verb = PING -> OnGetId(s, seq)
            [] verb = SET_ID -> OnSetId(s, in, seq, e)
            [] verb = GET_PARAM -> OnGetParam(s, in, seq, e)
            [] verb = SET_PARAM -> OnSetParam(s, in, seq, e)
            [] verb = GET_ALL -> OnGetAll(s, seq, e)
            [] verb = MSG -> OnMsg(s, in, seq, e)
            [] OTHER -> send_resp_err(s, seq)

-----------------------------------------------------------------------------
(* node_protocol.cpp: the route of a complete frame *)

\* what node_protocol_set_handler may be given: nullptr, the interpreter (as
\* setup() does), or a function of the application
Handlers == {"null", "node_interface_on_packet", "custom"}

\* g_handler(buffer, size): the interpreter, or an application function, which
\* is given the frame and calls nothing of node_interface
CallHandler(s, h, in, e) ==
  IF h = "node_interface_on_packet" THEN node_interface_on_packet(s, in, e)
  ELSE [s EXCEPT !.ev = Append(@, Ev("handler", in))]

\* a variant of the trampoline without the else: the interpreter runs as well
on_slip_packet_both(s, h, in, e) ==
  IF h # "null" THEN node_interface_on_packet(CallHandler(s, h, in, e), in, e)
  ELSE node_interface_on_packet(s, in, e)

\* on_slip_packet(buffer, size) with g_handler = h
on_slip_packet(s, h, in, e) ==
  IF h # "null" THEN CallHandler(s, h, in, e)
  ELSE node_interface_on_packet(s, in, e)

-----------------------------------------------------------------------------
(* The request frames the host sends *)

\* a frame of len bytes with zeroed memory behind it / with the bytes t behind it
In(f) == [null |-> FALSE, frame |-> f, tail |-> <<>>]

InT(f, t) == [null |-> FALSE, frame |-> f, tail |-> t]

\* frame = nullptr
NullIn == [null |-> TRUE, frame |-> <<>>, tail |-> <<>>]

Rec(tag, val) == <<tag, Len(val)>> \o val

RECURSIVE Cat(_)
Cat(ss) == IF ss = <<>> THEN <<>> ELSE Head(ss) \o Cat(Tail(ss))

\* a well-formed frame: the header's length byte counts the bytes of the body
Req(verb, seq, body) == <<verb, 0, seq, Len(body)>> \o body

\* a frame whose header declares more bytes than the body has
Overrun(verb, seq, body, more) == <<verb, 0, seq, Len(body) + more>> \o body

\* the sequence number the host puts in most requests, and the one a hello carries
HostSeq == 42

HelloSeq == 0

Str_N30 == <<78, 51, 48>>
Str_Zed == <<90, 101, 100>>
Str_bad_id == <<98, 97, 100, 32, 105, 100>>
Str_bob == <<98, 111, 98>>
Str_al == <<97, 108>>
Str_hello == <<104, 101, 108, 108, 111>>

\* TAG_ID values: valid ones, one per edge of the whitelist, a space, a 0 byte
\* inside and in front, and lengths around the capacity of s_id
IdValues ==
  { Str_N30, Str_bad_id, <<65, 90, 97, 122, 48, 57, 45, 95>>,
    <<97, 0, 98>>, <<0, 97>>,
    <<64>>, <<91>>, <<96>>, <<123>>, <<47>>, <<58>>, <<200>>,
    Rep(120, IdCap - 1), Rep(120, IdCap), Rep(120, IdCap + 8) }

SetIdBodies ==
  { Rec(TAG_ID, v) : v \in IdValues } \cup
  { <<>>,
    Rec(TAG_ID, <<>>),
    Rec(TAG_ALIAS, Str_bob),
    Rec(TAG_ALIAS, Str_bob) \o Rec(TAG_ID, Str_N30),
    Rec(TAG_ID, Str_N30) \o Rec(TAG_ID, Str_Zed),
    Rec(TAG_ID, <<>>) \o Rec(TAG_ID, Str_N30),
    Rec(TAG_ID, Str_bad_id) \o Rec(TAG_ID, Str_N30),
    <<TAG_ID, 5>> \o Str_N30 }

\* one in-range value other than the default for each numeric settable tag
GoodValue(t) ==
  CASE t = TAG_FREQ_HZ -> 868000000
    [] t = TAG_SF -> 7
    [] t = TAG_BW_HZ -> 250000
    [] t = TAG_CR -> 8
    [] t = TAG_TX_PWR_DBM -> -3
    [] t = TAG_CHAN -> 3
    [] t = TAG_MODE -> 2
    [] t = TAG_HOPS -> 4
    [] t = TAG_BEACON_SEC -> 60
    [] t = TAG_BUF_SIZE -> 300
    [] t = TAG_ACK_MODE -> 1

NumericTags == { SettableTags[i] : i \in 2..Len(SettableTags) }

NumRec(t, v) == Rec(t, LEBytes(v, TagWidth(t)))

GoodRecs ==
  { NumRec(t, GoodValue(t)) : t \in NumericTags } \cup
  { NumRec(TAG_SF, 12), NumRec(TAG_CR, 5), NumRec(TAG_ACK_MODE, 0) }

\* out of range
RangeRecs ==
  { NumRec(TAG_SF, 6), NumRec(TAG_SF, 13), NumRec(TAG_CR, 4), NumRec(TAG_CR, 9),
    NumRec(TAG_ACK_MODE, 2) }

\* one byte short and one byte long
WidthRecs ==
  { Rec(t, SubSeq(LEBytes(GoodValue(t), TagWidth(t)), 1, TagWidth(t) - 1)) : t \in NumericTags } \cup
  { Rec(t, LEBytes(GoodValue(t), TagWidth(t)) \o <<0>>) : t \in NumericTags }

AliasRecs ==
  { Rec(TAG_ALIAS, v) :
      v \in { Str_bob, Str_al, <<>>, <<97, 0, 98>>, Rep(97, IdCap - 1), Rep(97, IdCap + 1) } }

\* the diagnostics tags, 0x30..0x36
DiagTags ==
  <<TAG_RSSI_DBM, TAG_SNR_DB, TAG_VBAT_MV, TAG_TEMP_C10, TAG_FREE_MEM, TAG_FREE_FLASH,
    TAG_LOG_COUNT>>

\* records SET_PARAM has no case for; the last body has a record of the right
\* width, value 1, for every diagnostics tag
OtherRecs ==
  { Rec(126, <<1>>), Rec(TAG_ID, Str_N30), Rec(TAG_RSSI_DBM, <<0, 0>>),
    Rec(TAG_FW_VERSION, <<120>>),
    Rec(TAG_UPTIME_S, <<9, 0, 0, 0>>) \o Rec(TAG_BOOT_TIME, <<9, 0, 0, 0>>),
    Cat([i \in 1..Len(DiagTags) |-> Rec(DiagTags[i], LEBytes(1, TagWidth(DiagTags[i])))]) }

PairGood == { NumRec(TAG_SF, 7), NumRec(TAG_FREQ_HZ, 868000000), Rec(TAG_ALIAS, Str_bob) }

PairBad == { NumRec(TAG_SF, 13), Rec(TAG_BUF_SIZE, <<1>>) }

SetParamBodies ==
  GoodRecs \cup RangeRecs \cup WidthRecs \cup AliasRecs \cup OtherRecs \cup
  { g \o b : g \in PairGood, b \in PairBad } \cup
  { b \o g : g \in PairGood, b \in PairBad } \cup
  { <<>>,
    NumRec(TAG_SF, 7) \o NumRec(TAG_CR, 8),
    NumRec(TAG_SF, 7) \o NumRec(TAG_SF, 12),
    Rec(126, <<1>>) \o NumRec(TAG_MODE, 2) }

GetParamBodies ==
  { <<t, 0>> : t \in KnownTags \cup {126} } \cup
  { <<>>,
    <<TAG_SF, 0, TAG_MODE, 0>>,
    <<TAG_MODE, 0, TAG_SF, 0>>,
    <<TAG_SF, 0, TAG_SF, 0>>,
    <<TAG_ID, 0, TAG_ALIAS, 0, TAG_UPTIME_S, 0>>,
    NumRec(TAG_SF, 9) \o <<TAG_MODE, 0>>,
    Cat(Rep(<<TAG_ID, 0>>, 4)),
    Cat(Rep(<<TAG_FREQ_HZ, 0>>, FloodRecs - 2)),
    Cat(Rep(<<TAG_FREQ_HZ, 0>>, FloodRecs)),
    Cat(Rep(<<TAG_ID, 0>>, 8)) }

MsgBodies ==
  { Str_hello, <<>>, <<104, 0, 105>>,
    Rep(109, TextCap - 1), Rep(109, TextCap), Rep(109, TextCap + 6) }

\* verb bytes the switch has no case for
OtherVerbs == {127, RESP_OK, RESP_ERR, 0}

\* bytes that lie behind a frame: zeros, or what an earlier frame left there
Tails == { <<>>, <<7, TAG_MODE, 1, 2>>, <<TAG_MODE, 1, 2>>, <<TAG_ID, 0>> }

\* frames whose length bytes declare more than the frame holds
Malformed(seq) ==
  { InT(f, t) :
      f \in { Overrun(SET_ID, seq, Rec(TAG_ID, Str_N30), 2),
              Overrun(GET_PARAM, seq, <<TAG_SF, 0>>, 2),
              Overrun(SET_PARAM, seq, NumRec(TAG_SF, 7), 3),
              Req(SET_PARAM, seq, <<TAG_SF, 1>>),
              Req(SET_PARAM, seq, <<TAG_ALIAS, 3>>),
              Req(GET_PARAM, seq, <<TAG_SF, 2>>),
              Overrun(MSG, seq, Str_hello, 2) },
      t \in Tails }

WellFormed(seq) ==
  { In(Req(SET_ID, seq, b)) : b \in SetIdBodies } \cup
  { In(Req(SET_PARAM, seq, b)) : b \in SetParamBodies } \cup
  { In(Req(GET_PARAM, seq, b)) : b \in GetParamBodies } \cup
  { In(Req(MSG, seq, b)) : b \in MsgBodies } \cup
  { In(Req(v, seq, <<>>)) : v \in {GET_ID, PING, GET_ALL} \cup OtherVerbs } \cup
  { In(Req(v, seq, Rec(TAG_SF, <<>>))) : v \in {GET_ID, GET_ALL, 127} }

\* fewer than 4 bytes, or no frame at all
Short == { NullIn, In(<<>>), In(<<GET_ID>>), In(<<GET_ID, 0>>), In(<<GET_ID, 0, HostSeq>>) }

\* requests that carry the sequence number of a hello
ZeroSeq ==
  { In(Req(GET_ID, HelloSeq, <<>>)),
    In(Req(SET_ID, HelloSeq, Rec(TAG_ID, Str_N30))),
    In(Req(SET_PARAM, HelloSeq, NumRec(TAG_SF, 13))),
    In(Req(127, HelloSeq, <<>>)) }

\* frames that hold more bytes than their length byte declares
Slack(seq) ==
  { In(<<MSG, 0, seq, 2>> \o Str_hello),
    In(<<GET_PARAM, 0, seq, 2, TAG_SF, 0, TAG_MODE, 0>>) }

Inputs == Short \cup ZeroSeq \cup WellFormed(HostSeq) \cup Malformed(HostSeq) \cup Slack(HostSeq)

-----------------------------------------------------------------------------
(* The indices i at which a call evaluates frame[i] *)

\* the indices off .. off + n - 1
Span(off, n) == { off + j : j \in 0..(n - 1) }

\* the loop of tlv_find: t and L of each record up to the match or the break
RECURSIVE FindIdx(_, _, _, _)
FindIdx(in, off, end, tag) ==
  IF off + 2 <= end
  THEN {off, off + 1} \cup
       (IF off + 2 + Rd(in, off + 1) > end \/ Rd(in, off) = tag THEN {}
        ELSE FindIdx(in, off + 2 + Rd(in, off + 1), end, tag))
  ELSE {}

\* what the switch (t) of case SET_PARAM reads of the value at p = frame + poff:
\* strncpy stops behind the first 0, tlv_read_le reads sizeof(T) bytes iff L = sizeof(T)
ValueIdx(in, t, L, poff) ==
  IF t = TAG_ALIAS
  THEN LET n == Min(L, IdCap - 1)
           k == Strnlen(RdBytes(in, poff, n), n)
       IN Span(poff, Min(n, k + 1))
  ELSE IF t \in NumericTags /\ L = TagWidth(t) THEN Span(poff, L)
  ELSE {}

\* the while loops of case GET_PARAM (values = FALSE) and case SET_PARAM (TRUE)
RECURSIVE ScanIdx(_, _, _, _)
ScanIdx(in, off, end, values) ==
  IF off + 2 <= end
  THEN {off, off + 1} \cup
       (IF values THEN ValueIdx(in, Rd(in, off), Rd(in, off + 1), off + 2) ELSE {}) \cup
       ScanIdx(in, off + 2 + Rd(in, off + 1), end, values)
  ELSE {}

\* every index node_interface_on_packet(frame, len) reads
ReadIdx(in) ==
  IF in.null \/ Len(in.frame) < 4 THEN {}
  ELSE LET verb == Rd(in, 0)
           len == Len(in.frame)
           L == Rd(in, 3)
       IN {0, 2} \cup
          CASE verb = SET_ID ->
                 {3} \cup
                 (IF 4 + L > len THEN {}
                  ELSE LET f == tlv_find(in, TAG_ID)
                       IN FindIdx(in, 4, 4 + L, TAG_ID) \cup
                          (IF f.found /\ f.L # 0
                           THEN Span(f.off, IF f.L >= IdCap THEN IdCap - 1 ELSE f.L)
                           ELSE {}))
            [] verb = GET_PARAM -> {3} \cup ScanIdx(in, 4, 4 + L, FALSE)
            [] verb = SET_PARAM -> {3} \cup ScanIdx(in, 4, 4 + L, TRUE)
            [] verb = MSG ->
                 {3} \cup
                 (IF len < 4 + L THEN {}
                  ELSE Span(4, IF L >= TextCap THEN TextCap - 1 ELSE L))
            [] OTHER -> {}

-----------------------------------------------------------------------------
(* The program: setup(), loop(), and what the environment decides *)

NoCall ==
  [ kind |-> "none", in |-> NullIn, pre |-> DefaultNode, pre_nvs |-> NoStore,
    ev |-> <<>>, ovf |-> FALSE, up |-> 0 ]

Env(disp, begin_ok, up) == [g_ok |-> disp, begin_ok |-> begin_ok, up |-> up]

\* does the GET_PARAM loop reach send_tag_value(TAG_UPTIME_S), which reads millis()
RECURSIVE ScanReadsClock(_, _, _)
ScanReadsClock(in, off, end) ==
  IF off + 2 <= end
  THEN \/ (Rd(in, off) = TAG_UPTIME_S /\ Rd(in, off + 1) = 0)
       \/ ScanReadsClock(in, off + 2 + Rd(in, off + 1), end)
  ELSE FALSE

ReadsClock(in) ==
  /\ ~in.null
  /\ Len(in.frame) >= 4
  /\ Rd(in, 0) = GET_PARAM
  /\ ScanReadsClock(in, 4, 4 + Rd(in, 3))

\* can the call reach save_to_nvs, which reads s_prefs.begin(): only case SET_ID
\* and case SET_PARAM call it
MaySave(in) == ~in.null /\ Len(in.frame) >= 4 /\ Rd(in, 0) \in {SET_ID, SET_PARAM}

\* what a write past the end of a stack buffer may do: nothing visible, or a
\* fault (and reset) before or after the frame is handed to protocol_send
Outcomes(ovf) == IF ovf THEN {"proceed", "fault_before_send", "fault_after_send"} ELSE {"proceed"}

DropLastSend(ev) == SubSeq(ev, 1, Len(ev) - 1)

Init ==
  /\ pc = "boot"
  /\ node = DefaultNode
  /\ nvs = NoStore
  /\ g_ok = FALSE
  /\ call = NoCall
  /\ millis_s = 0
  /\ nsteps = 0
  /\ g_handler = "null"

\* setup() of main.cpp
Setup ==
  /\ pc = "boot"
  /\ \E begin_ok \in BOOLEAN, disp \in BOOLEAN :
       LET n1 == load_from_nvs(node, nvs, begin_ok)
           s0 == St(n1, nvs, <<>>, FALSE)
           s1 == IF disp THEN [s0 EXCEPT !.ev = Append(@, Ev("draw_boot", <<>>))] ELSE s0
           s2 == node_display_draw_id(s1, disp, CStr(n1.s_id))
           s3 == node_interface_send_hello(s2)
       IN /\ node' = s3.node
          /\ g_ok' = disp
          /\ call' = [NoCall EXCEPT !.kind = "setup", !.pre = node, !.pre_nvs = nvs, !.ev = s3.ev]
  /\ g_handler' = "node_interface_on_packet"
  /\ pc' = "returned"
  /\ UNCHANGED <<nvs, millis_s, nsteps>>

\* loop(): node_protocol_update() hands one complete frame to on_slip_packet
HandlePacket ==
  /\ pc = "idle"
  /\ nsteps < MaxSteps
  /\ \E in \in Inputs :
     \E begin_ok \in (IF ~node.s_prefs_open /\ MaySave(in) THEN BOOLEAN ELSE {TRUE}) :
     \E up \in (IF ReadsClock(in) THEN millis_s..MaxUptime ELSE {millis_s}) :
     \E r \in {on_slip_packet(St(node, nvs, <<>>, FALSE), g_handler, in, Env(g_ok, begin_ok, up))} :
          \E o \in Outcomes(r.ovf) :
            /\ node' = r.node
            /\ nvs' = r.nvs
            /\ millis_s' = up
            /\ call' = [ kind |-> IF g_handler = "custom" THEN "custom" ELSE "packet",
                         in |-> in, pre |-> node, pre_nvs |-> nvs,
                         ev |-> IF o = "fault_before_send" THEN DropLastSend(r.ev) ELSE r.ev,
                         ovf |-> r.ovf, up |-> up ]
            /\ pc' = IF o = "proceed" THEN "returned" ELSE "crashed"
  /\ nsteps' = nsteps + 1
  /\ UNCHANGED <<g_ok, g_handler>>

\* the call returns to loop()
Return ==
  /\ pc = "returned"
  /\ pc' = "idle"
  /\ call' = NoCall
  /\ UNCHANGED <<node, nvs, g_ok, millis_s, nsteps, g_handler>>

\* reset after a fault: RAM is initialised again, the store is kept
Reboot ==
  /\ pc = "crashed"
  /\ pc' = "boot"
  /\ node' = DefaultNode
  /\ g_ok' = FALSE
  /\ call' = NoCall
  /\ millis_s' = 0
  /\ g_handler' = "null"
  /\ UNCHANGED <<nvs, nsteps>>

\* power cycle between two frames
PowerCycle ==
  /\ pc = "idle"
  /\ nsteps < MaxSteps
  /\ pc' = "boot"
  /\ node' = DefaultNode
  /\ g_ok' = FALSE
  /\ call' = NoCall
  /\ millis_s' = 0
  /\ g_handler' = "null"
  /\ nsteps' = nsteps + 1
  /\ UNCHANGED nvs

\* node_protocol_set_handler(h), called by the application between two frames
\* with a handler other than the one installed
SetHandler ==
  /\ pc = "idle"
  /\ nsteps < MaxSteps
  /\ \E h \in Handlers \ {g_handler} : g_handler' = h
  /\ nsteps' = nsteps + 1
  /\ UNCHANGED <<pc, node, nvs, g_ok, call, millis_s>>

Next == Setup \/ HandlePacket \/ Return \/ Reboot \/ PowerCycle \/ SetHandler

Spec == Init /\ [][Next]_vars

-----------------------------------------------------------------------------
(* Reading a call back from the outside: the request as the host built it and
   the frames that came out, decoded by the wire format of the protocol *)

\* a call of node_interface_on_packet has just ended (by return or by a fault)
PacketCall == pc \in {"returned", "crashed"} /\ call.kind = "packet"

ReqFrame == call.in.frame

\* the request has the four header bytes
HasHeader == PacketCall /\ ~call.in.null /\ Len(ReqFrame) >= 4

ReqVerb == ReqFrame[1]

ReqSeq == ReqFrame[3]

\* the frames this call sent, in order
Out == Sent(call.ev)

\* the records of a TLV region, or ok = FALSE when a record does not fit
RECURSIVE ParseTlvs(_)
ParseTlvs(b) ==
  IF b = <<>> THEN [ok |-> TRUE, recs |-> <<>>]
  ELSE IF Len(b) < 2 \/ Len(b) < 2 + b[2] THEN [ok |-> FALSE, recs |-> <<>>]
  ELSE LET rest == ParseTlvs(SubSeq(b, 3 + b[2], Len(b)))
       IN [ok |-> rest.ok,
           recs |-> <<[tag |-> b[1], val |-> SubSeq(b, 3, 2 + b[2])]>> \o rest.recs]

\* a frame whose length byte and records agree with its size
IsFrame(f) ==
  /\ Len(f) >= 4
  /\ f[4] = Len(f) - 4
  /\ ParseTlvs(SubSeq(f, 5, Len(f))).ok

Recs(f) == ParseTlvs(SubSeq(f, 5, Len(f))).recs

\* a well-formed request of the given verb
WellFormedReq(verb) == HasHeader /\ ReqVerb = verb /\ IsFrame(ReqFrame)

\* the index of the first record with the tag, 0 if there is none
FirstOf(recs, tag) ==
  IF \E i \in 1..Len(recs) : recs[i].tag = tag
  THEN CHOOSE i \in 1..Len(recs) :
         recs[i].tag = tag /\ \A j \in 1..(i - 1) : recs[j].tag # tag
  ELSE 0

\* the index of the last record with the tag, 0 if there is none
LastOf(recs, tag) ==
  IF \E i \in 1..Len(recs) : recs[i].tag = tag
  THEN CHOOSE i \in 1..Len(recs) :
         recs[i].tag = tag /\ \A j \in (i + 1)..Len(recs) : recs[j].tag # tag
  ELSE 0

\* the ID alphabet of the protocol: A-Z a-z 0-9 - _
IdAlphabet == (65..90) \cup (97..122) \cup (48..57) \cup {45, 95}

\* the first TAG_ID value of a well-formed SET_ID request, <<>> if there is none
SetIdValue ==
  LET i == FirstOf(Recs(ReqFrame), TAG_ID)
  IN IF i = 0 THEN <<>> ELSE Recs(ReqFrame)[i].val

\* the response frames of the protocol
OkId(seq, id) == Req(RESP_OK, seq, Rec(TAG_ID, id))

Err(seq) == Req(RESP_ERR, seq, <<>>)

\* what the node answers, in its present state, to a request sent now
Answer(n, f) ==
  Sent(node_interface_on_packet(St(n, nvs, <<>>, FALSE), In(f), Env(g_ok, TRUE, millis_s)).ev)

\* the call wrote to the store
Wrote == PacketCall /\ \E i \in 1..Len(call.ev) : call.ev[i].k = "nvs_put"

-----------------------------------------------------------------------------
(* Claims *)

\* C1: for every frame of at least 4 bytes the call emits exactly one response,
\* RESP_OK or RESP_ERR, with the seq of the request; the only further frame is
\* the hello (RESP_OK, seq 0, TAG_ID) right after a successful SET_ID.
C1_OneResponse ==
  HasHeader =>
    /\ Len(Out) >= 1
    /\ Len(Out[1]) >= 4
    /\ Out[1][1] \in {RESP_OK, RESP_ERR}
    /\ Out[1][3] = ReqSeq
    /\ \/ Len(Out) = 1
       \/ /\ Len(Out) = 2
          /\ ReqVerb = SET_ID
          /\ Out[1][1] = RESP_OK
          /\ Out[2] = OkId(HelloSeq, CStr(node.s_id))

\* C2: a SET_ID whose TAG_ID value v has 1..31 bytes, all of the ID alphabet,
\* is answered RESP_OK (seq of the request) with TAG_ID = v, then the hello
\* (seq 0) with TAG_ID = v as a second frame; the node ID is v afterwards and a
\* following GET_ID returns v.
C2_Case ==
  /\ WellFormedReq(SET_ID)
  /\ Len(SetIdValue) \in 1..(IdCap - 1)
  /\ \A i \in 1..Len(SetIdValue) : SetIdValue[i] \in IdAlphabet

C2_SetIdValid ==
  C2_Case =>
    /\ pc = "returned"
    /\ Out = <<OkId(ReqSeq, SetIdValue), OkId(HelloSeq, SetIdValue)>>
    /\ CStr(node.s_id) = SetIdValue
    /\ Answer(node, Req(GET_ID, HostSeq, <<>>)) = <<OkId(HostSeq, SetIdValue)>>

\* C2 witness: a valid ID of the greatest length, 31 bytes, was set
C2_Witness ==
  /\ C2_Case
  /\ Len(SetIdValue) = IdCap - 1
  /\ Len(Out) = 2
  /\ CStr(call.pre.s_id) # SetIdValue

\* C3: a SET_ID whose TAG_ID value has 1..31 bytes, one of them outside the ID
\* alphabet (a space, a zero byte), is answered RESP_ERR alone; the ID is
\* unchanged, nothing is persisted, no hello is sent.
C3_Case ==
  /\ WellFormedReq(SET_ID)
  /\ Len(SetIdValue) \in 1..(IdCap - 1)
  /\ \E i \in 1..Len(SetIdValue) : SetIdValue[i] \notin IdAlphabet

C3_SetIdBadByte ==
  C3_Case =>
    /\ Out = <<Err(ReqSeq)>>
    /\ node.s_id = call.pre.s_id
    /\ ~Wrote
    /\ nvs = call.pre_nvs

\* C4: a SET_ID whose TAG_ID value is longer than 31 bytes is answered RESP_ERR
\* and the ID is unchanged; the ID never becomes a truncated prefix of the value.
C4_Case ==
  /\ WellFormedReq(SET_ID)
  /\ Len(SetIdValue) > IdCap - 1

C4_SetIdTooLong ==
  C4_Case =>
    /\ Out = <<Err(ReqSeq)>>
    /\ node.s_id = call.pre.s_id

-----------------------------------------------------------------------------
(* The tag table of the protocol, as a host reads it *)

\* every tag of enum Tag, in the order of the enum
TagTable ==
  <<TAG_ID, TAG_ALIAS, TAG_FW_VERSION, TAG_UPTIME_S, TAG_BOOT_TIME,
    TAG_FREQ_HZ, TAG_SF, TAG_BW_HZ, TAG_CR, TAG_TX_PWR_DBM, TAG_CHAN,
    TAG_MODE, TAG_HOPS, TAG_BEACON_SEC, TAG_BUF_SIZE, TAG_ACK_MODE,
    TAG_RSSI_DBM, TAG_SNR_DB, TAG_VBAT_MV, TAG_TEMP_C10, TAG_FREE_MEM,
    TAG_FREE_FLASH, TAG_LOG_COUNT>>

AllTags == { TagTable[i] : i \in 1..Len(TagTable) }

\* the twelve settable tags in the order of the SET_PARAM echo
EchoOrder ==
  <<TAG_ALIAS, TAG_FREQ_HZ, TAG_SF, TAG_BW_HZ, TAG_CR, TAG_TX_PWR_DBM, TAG_CHAN,
    TAG_MODE, TAG_HOPS, TAG_BEACON_SEC, TAG_BUF_SIZE, TAG_ACK_MODE>>

\* the settable tags that carry an integer
SettableNumeric == { EchoOrder[i] : i \in 2..Len(EchoOrder) }

\* bytes of the integer of a tag: u32 4, u16 / i16 2, u8 / i8 1
WireWidth(t) ==
  IF t \in {TAG_UPTIME_S, TAG_BOOT_TIME, TAG_FREQ_HZ, TAG_BW_HZ, TAG_BEACON_SEC,
            TAG_FREE_MEM, TAG_FREE_FLASH} THEN 4
  ELSE IF t \in {TAG_BUF_SIZE, TAG_RSSI_DBM, TAG_VBAT_MV, TAG_TEMP_C10, TAG_LOG_COUNT} THEN 2
  ELSE 1

\* the tags whose integer is signed: i8 and i16
WireSigned(t) == t \in {TAG_TX_PWR_DBM, TAG_RSSI_DBM, TAG_SNR_DB, TAG_TEMP_C10}

\* the integer a little-endian value of the tag stands for
WireValue(val, t) ==
  LET u == LESum(val, 1)
  IN IF WireSigned(t) /\ val # <<>> /\ val[Len(val)] >= 128 THEN u - Pow256(Len(val)) ELSE u

\* the global that holds a settable numeric tag
FieldOf(t) ==
  CASE t = TAG_FREQ_HZ -> "s_freq_hz"
    [] t = TAG_SF -> "s_sf"
    [] t = TAG_BW_HZ -> "s_bw_hz"
    [] t = TAG_CR -> "s_cr"
    [] t = TAG_TX_PWR_DBM -> "s_tx_pwr"
    [] t = TAG_CHAN -> "s_chan"
    [] t = TAG_MODE -> "s_mode"
    [] t = TAG_HOPS -> "s_hops"
    [] t = TAG_BEACON_SEC -> "s_beacon_s"
    [] t = TAG_BUF_SIZE -> "s_buf_size"
    [] t = TAG_ACK_MODE -> "s_ack_mode"

\* the ranges SET_PARAM enforces: SF 7..12, CR 5..8, ACK_MODE 0 or 1
InRange(t, v) ==
  /\ t = TAG_SF => v \in 7..12
  /\ t = TAG_CR => v \in 5..8
  /\ t = TAG_ACK_MODE => v \in {0, 1}

\* a record SET_PARAM accepts: a numeric settable tag has its width and range
RecValid(r) ==
  r.tag \in SettableNumeric =>
    /\ Len(r.val) = WireWidth(r.tag)
    /\ InRange(r.tag, WireValue(r.val, r.tag))

\* the tags of a frame's records, in order
TagsOf(f) == LET recs == Recs(f) IN [i \in 1..Len(recs) |-> recs[i].tag]

\* the record carries the value the node n holds for its tag (up: uptime read)
IsCurrent(r, n, up) ==
  CASE r.tag = TAG_ID -> r.val = CStr(n.s_id)
    [] r.tag = TAG_ALIAS -> r.val = CStr(n.s_alias)
    [] r.tag = TAG_FW_VERSION -> r.val = Str_1_0_0
    [] r.tag \in SettableNumeric ->
         Len(r.val) = WireWidth(r.tag) /\ WireValue(r.val, r.tag) = n[FieldOf(r.tag)]
    [] r.tag \in AllTags \ (SettableNumeric \cup {TAG_ID, TAG_ALIAS, TAG_FW_VERSION}) ->
         Len(r.val) = WireWidth(r.tag) /\ WireValue(r.val, r.tag) = NumValue(n, up, r.tag)
    [] OTHER -> FALSE

\* the store holds the configuration of n
StoreHolds(store, n) ==
  /\ store.written
  /\ store.id = CStr(n.s_id)
  /\ store.alias = CStr(n.s_alias)
  /\ store.freq_hz = n.s_freq_hz /\ store.sf = n.s_sf /\ store.bw_hz = n.s_bw_hz
  /\ store.cr = n.s_cr /\ store.tx_pwr = n.s_tx_pwr /\ store.chan = n.s_chan
  /\ store.mode = n.s_mode /\ store.hops = n.s_hops /\ store.beacon_s = n.s_beacon_s
  /\ store.buf_size = n.s_buf_size /\ store.ack_mode = n.s_ack_mode

\* the store was written before the first frame went out, and holds the configuration
PersistedBeforeResponse ==
  /\ \E i \in 1..Len(call.ev) :
       /\ call.ev[i].k = "nvs_put"
       /\ \A j \in 1..i : call.ev[j].k # "send"
  /\ StoreHolds(nvs, node)

-----------------------------------------------------------------------------

\* C5: a SET_PARAM with a single record of a numeric settable tag that is out of
\* range (SF outside 7..12, CR outside 5..8, ACK_MODE outside {0,1}) or whose
\* length is not the width of the tag is answered RESP_ERR, and a following
\* GET_PARAM for the tag returns the value the tag had before the request.
C5_Case ==
  /\ WellFormedReq(SET_PARAM)
  /\ Len(Recs(ReqFrame)) = 1
  /\ Recs(ReqFrame)[1].tag \in SettableNumeric
  /\ ~RecValid(Recs(ReqFrame)[1])

C5_Ask == Req(GET_PARAM, HostSeq, <<Recs(ReqFrame)[1].tag, 0>>)

C5_SetParamRejected ==
  C5_Case =>
    /\ Out = <<Err(ReqSeq)>>
    /\ Answer(node, C5_Ask) = Answer(call.pre, C5_Ask)
    /\ Len(Answer(node, C5_Ask)) = 1
    /\ Recs(Answer(node, C5_Ask)[1]) =
         << [tag |-> Recs(ReqFrame)[1].tag,
             val |-> LEBytes(call.pre[FieldOf(Recs(ReqFrame)[1].tag)],
                             WireWidth(Recs(ReqFrame)[1].tag))] >>

\* C5: at every moment of every run, a SET_PARAM with one settable numeric tag
\* of a wrong length or an out-of-range value has been answered RESP_ERR alone
\* and the parameter reads as before.
C5_Always == []C5_SetParamRejected

\* C5 witness: an SF out of range was refused while SF held a value set earlier
C5_Witness ==
  /\ C5_Case
  /\ pc = "returned"
  /\ Recs(ReqFrame)[1].tag = TAG_SF
  /\ Len(Recs(ReqFrame)[1].val) = 1
  /\ call.pre.s_sf # DefaultNode.s_sf

\* C6: whenever a SET_PARAM is answered RESP_ERR, the alias and every radio and
\* behavior parameter in memory are what they were before the frame was handled.
C6_ErrLeavesConfig ==
  (HasHeader /\ ReqVerb = SET_PARAM /\ IsFrame(ReqFrame) /\ Out = <<Err(ReqSeq)>>) =>
    \A fld \in ParamFields : node[fld] = call.pre[fld]

\* C7: a call answered RESP_ERR, or not answered, writes nothing to the store;
\* the store is written only in calls answered RESP_OK to SET_ID or SET_PARAM.
C7_WritesOnlyOnOk ==
  (PacketCall /\ (Wrote \/ nvs # call.pre_nvs)) =>
    /\ HasHeader
    /\ ReqVerb \in {SET_ID, SET_PARAM}
    /\ Len(Out) >= 1
    /\ Out[1][1] = RESP_OK
    /\ Out[1][3] = ReqSeq

\* C7 witness: a SET_PARAM wrote the store
C7_Witness ==
  /\ Wrote
  /\ HasHeader
  /\ ReqVerb = SET_PARAM
  /\ nvs # call.pre_nvs

\* C8 (as stated): a SET_PARAM in which every recognized record decodes and
\* validates is answered RESP_OK with exactly the twelve settable tags in the
\* order ALIAS .. ACK_MODE, each with the value held afterwards; every numeric
\* tag of the request holds the requested value; the configuration is persisted
\* before the response is sent.
C8_Case ==
  /\ WellFormedReq(SET_PARAM)
  /\ LET req == Recs(ReqFrame)
     IN \A i \in 1..Len(req) : RecValid(req[i])

\* the echo: RESP_OK, the twelve tags in order with the values now held; every
\* numeric tag of the request (its last record, if repeated) holds its value
C8_Echo ==
  /\ pc = "returned"
  /\ Len(Out) = 1
  /\ LET resp == Out[1]
         echo == Recs(resp)
         req == Recs(ReqFrame)
     IN /\ IsFrame(resp)
        /\ resp[1] = RESP_OK
        /\ resp[3] = ReqSeq
        /\ TagsOf(resp) = EchoOrder
        /\ \A i \in 1..Len(echo) : IsCurrent(echo[i], node, call.up)
        /\ \A t \in SettableNumeric :
             LastOf(req, t) # 0 => node[FieldOf(t)] = WireValue(req[LastOf(req, t)].val, t)

C8_AsStated == C8_Case => (C8_Echo /\ PersistedBeforeResponse)

\* C8 (amended): the same echo; the configuration is persisted before the
\* response is sent whenever the store is open or can be opened, and when it
\* cannot be opened the response is the same RESP_OK and the store is untouched.
C8_SetParamOk ==
  C8_Case =>
    /\ C8_Echo
    /\ node.s_prefs_open => PersistedBeforeResponse
    /\ ~node.s_prefs_open => (~Wrote /\ nvs = call.pre_nvs)

\* C8: at every moment of every run, a SET_PARAM whose recognized records all
\* decode and validate has been answered RESP_OK with the twelve settable tags
\* in order and their values after the request, persisted before the response
\* when the store is open or can be opened and left in memory only otherwise.
C8_Always == []C8_SetParamOk

\* C8 witness: a request with two numeric records was applied and persisted
C8_Witness ==
  /\ C8_Case
  /\ pc = "returned"
  /\ Len(Recs(ReqFrame)) = 2
  /\ \A i \in 1..2 : Recs(ReqFrame)[i].tag \in SettableNumeric
  /\ node.s_sf # call.pre.s_sf
  /\ Wrote

\* C9: for a well-formed GET_PARAM the response is RESP_OK with exactly one TLV
\* for each request record of length 0 and known tag, in request order, each
\* with the current value; other records contribute nothing.
C9_IsAsk(r) == r.val = <<>> /\ r.tag \in AllTags

C9_Asked == SelectSeq(Recs(ReqFrame), C9_IsAsk)

C9_GetParam ==
  WellFormedReq(GET_PARAM) =>
    /\ Len(Out) = 1
    /\ Len(Out[1]) >= 4
    /\ Out[1][1] = RESP_OK
    /\ Out[1][3] = ReqSeq
    /\ ParseTlvs(SubSeq(Out[1], 5, Len(Out[1]))).ok
    /\ TagsOf(Out[1]) = [i \in 1..Len(C9_Asked) |-> C9_Asked[i].tag]
    /\ \A i \in 1..Len(Recs(Out[1])) : IsCurrent(Recs(Out[1])[i], node, call.up)

\* C10: a GET_ALL is answered RESP_OK with every tag of the tag table, each
\* exactly once, FW_VERSION, UPTIME_S and BOOT_TIME among them, in the same
\* order whatever TLVs the request carries.
C10_GetAll ==
  (HasHeader /\ ReqVerb = GET_ALL) =>
    /\ Len(Out) = 1
    /\ IsFrame(Out[1])
    /\ Out[1][1] = RESP_OK
    /\ Out[1][3] = ReqSeq
    /\ \A t \in AllTags : Cardinality({ i \in 1..Len(TagsOf(Out[1])) : TagsOf(Out[1])[i] = t }) = 1
    /\ Len(TagsOf(Out[1])) = Len(TagTable)
    /\ TagsOf(Out[1]) = TagsOf(Answer(call.pre, Req(GET_ALL, HostSeq, <<>>))[1])

-----------------------------------------------------------------------------

\* C11: a MSG frame with length byte L and at least 4 + L bytes puts the first
\* min(L, 63) payload bytes, then a terminator, into the last-text buffer (so
\* last_text() is the payload), is answered RESP_OK (seq of the request) with
\* TAG_ID only, and changes neither the configuration nor the store.
C11_Case == HasHeader /\ ReqVerb = MSG /\ Len(ReqFrame) >= 4 + ReqFrame[4]

\* the payload bytes that are kept
C11_Kept ==
  SubSeq(ReqFrame, 5, 4 + (IF ReqFrame[4] <= TextCap - 1 THEN ReqFrame[4] ELSE TextCap - 1))

C11_Msg ==
  C11_Case =>
    /\ pc = "returned"
    /\ SubSeq(node.s_last_text, 1, Len(C11_Kept)) = C11_Kept
    /\ node.s_last_text[Len(C11_Kept) + 1] = 0
    /\ (\A i \in 1..Len(C11_Kept) : C11_Kept[i] # 0) => CStr(node.s_last_text) = C11_Kept
    /\ Out = <<OkId(ReqSeq, CStr(node.s_id))>>
    /\ \A fld \in ConfigFields : node[fld] = call.pre[fld]
    /\ node.s_prefs_open = call.pre.s_prefs_open
    /\ ~Wrote
    /\ nvs = call.pre_nvs

\* C11 witness: "hello" replaced a longer text
C11_Witness ==
  /\ C11_Case
  /\ C11_Kept = Str_hello
  /\ Len(CStr(call.pre.s_last_text)) > Len(Str_hello)
  /\ CStr(node.s_last_text) = Str_hello

\* the verbs the dispatcher has a case for
KnownVerbs == {GET_ID, SET_ID, PING, MSG, GET_PARAM, SET_PARAM, GET_ALL}

\* C12: a frame of at least 4 bytes whose verb is none of the seven request
\* verbs (0x7F, RESP_OK, RESP_ERR, ...) is answered with RESP_ERR, the seq of the
\* request and an empty TLV region; configuration and last text are unchanged
\* and the store is not written.
C12_Case == HasHeader /\ ReqVerb \notin KnownVerbs

C12_UnknownVerb ==
  C12_Case =>
    /\ pc = "returned"
    /\ Out = << <<RESP_ERR, 0, ReqSeq, 0>> >>
    /\ \A fld \in ConfigFields : node[fld] = call.pre[fld]
    /\ node.s_last_text = call.pre.s_last_text
    /\ ~Wrote
    /\ nvs = call.pre_nvs

\* C12 witness: a RESP_ERR frame sent to a node whose ID had been changed
C12_Witness ==
  /\ C12_Case
  /\ ReqVerb = RESP_ERR
  /\ call.pre.s_id # DefaultNode.s_id
  /\ Len(Out) = 1

\* C13: when the call for a GET_ID, PING, GET_PARAM or GET_ALL frame ends, the
\* ID, the alias, every radio and behavior parameter, the last-text buffer and
\* the store are what they were before it, whatever the request carries.
C13_Case == HasHeader /\ ReqVerb \in {GET_ID, PING, GET_PARAM, GET_ALL}

C14_Twice ==
  WellFormedReq(GET_ID) =>
    /\ pc = "returned"
    /\ Out = <<OkId(ReqSeq, CStr(node.s_id))>>
    /\ Answer(node, ReqFrame) = Out
    /\ node = call.pre

\* C14 witness: a GET_ID answered with an ID of 31 bytes set by an earlier frame
C14_Witness ==
  /\ WellFormedReq(GET_ID)
  /\ ReqSeq = HostSeq
  /\ Len(CStr(node.s_id)) = IdCap - 1
  /\ Len(Out) = 1
  /\ Len(Out[1]) = 4 + 2 + IdCap - 1

\* C15: whatever the frame, its length and its verb, the call reads no frame
\* byte at an index >= len, also when the header length byte or the length
\* byte of a record declares more bytes than the frame holds.
C15_NoReadPastLen ==
  (PacketCall /\ ~call.in.null) =>
    \A i \in ReadIdx(call.in) : i < Len(ReqFrame)

\* a record of the region b declares more value bytes than the region has left
RECURSIVE RecOverrun(_)
RecOverrun(b) ==
  /\ Len(b) >= 2
  /\ (Len(b) < 2 + b[2] \/ RecOverrun(SubSeq(b, 3 + b[2], Len(b))))

\* the request is structurally invalid: the header declares more TLV bytes than
\* the frame holds, or (SET_ID, GET_PARAM, SET_PARAM) a record runs past the region
StructInvalid ==
  /\ HasHeader
  /\ ReqVerb \in {SET_ID, GET_PARAM, SET_PARAM, MSG}
  /\ \/ 4 + ReqFrame[4] > Len(ReqFrame)
     \/ /\ ReqVerb # MSG
        /\ RecOverrun(SubSeq(ReqFrame, 5, 4 + ReqFrame[4]))

\* C16: a structurally invalid SET_ID, GET_PARAM, SET_PARAM or MSG frame is
\* answered with RESP_ERR and changes nothing: not the configuration, not the
\* last text, not the store.
C16_Invalid ==
  StructInvalid =>
    /\ pc = "returned"
    /\ Out = <<Err(ReqSeq)>>
    /\ \A fld \in ConfigFields : node[fld] = call.pre[fld]
    /\ node.s_last_text = call.pre.s_last_text
    /\ ~Wrote
    /\ nvs = call.pre_nvs

\* C17: in every frame the node emits, byte 3 is the number of bytes that
\* follow the four header bytes; no frame goes out whose TLV region is longer
\* than 255 bytes with a length byte cut down to 8 bits.
C17_LenByte ==
  \A i \in 1..Len(call.ev) :
    call.ev[i].k = "send" => call.ev[i].d[4] = Len(call.ev[i].d) - 4

\* C18: a call with a null frame pointer, or with fewer than 4 bytes, is a
\* no-op: it emits no frame (and draws and prints nothing), changes no global
\* and persists nothing.
C18_Case == PacketCall /\ (call.in.null \/ Len(ReqFrame) < 4)

C18_NoOp ==
  C18_Case =>
    /\ pc = "returned"
    /\ call.ev = <<>>
    /\ node = call.pre
    /\ nvs = call.pre_nvs

\* C18 witness: a 3-byte frame sent to a node whose store has been written
C18_Witness ==
  /\ C18_Case
  /\ ~call.in.null
  /\ Len(ReqFrame) = 3
  /\ call.pre_nvs.written

\* the hello frame for an ID
Hello(id) == OkId(HelloSeq, id)

\* one step of the node, as far as hellos go: the step out of boot is setup(),
\* which sends one frame, the hello with the ID it holds after loading, and that
\* ID is bootId; a request is handled only from loop(), after setup() returned;
\* every frame of a request's call behind its response is a hello with the ID
\* the node then holds
HelloStep(bootId) ==
  /\ (pc = "boot" /\ pc' # "boot") =>
       /\ call'.kind = "setup"
       /\ Sent(call'.ev) = <<Hello(CStr(node'.s_id))>>
       /\ CStr(node'.s_id) = bootId
  /\ (call'.kind = "packet" /\ call.kind # "packet") =>
       /\ pc = "idle"
       /\ \A i \in 2..Len(Sent(call'.ev)) : Sent(call'.ev)[i] = Hello(CStr(node'.s_id))

\* C19 (amended): every hello is RESP_OK, flags 0, seq 0, with the single record
\* TAG_ID = current ID; at boot exactly one hello is sent, after the load and
\* before any request is handled, and it carries the persisted ID when the
\* store can be opened and holds one, the default ID otherwise.
C19_Hello ==
  [][HelloStep(IF node'.s_prefs_open /\ nvs.written THEN nvs.id ELSE Str_HckrMn)]_vars

\* C19 witness: a boot whose hello carries a persisted ID other than the default
C19_Witness ==
  /\ pc = "returned"
  /\ call.kind = "setup"
  /\ nvs.written
  /\ nvs.id # Str_HckrMn
  /\ Out = <<Hello(nvs.id)>>

\* C19 as stated: the boot hello carries the persisted ID whenever the store
\* holds one.
C19_AsStated ==
  [][HelloStep(IF nvs.written THEN nvs.id ELSE Str_HckrMn)]_vars

\* a frame has just been handed to on_slip_packet
Delivered == pc \in {"returned", "crashed"} /\ call.kind \in {"packet", "custom"}

\* the step did what one call of the interpreter does with the frame (up to a
\* fault at the end of the call); s_prefs.begin(), if the call reached it,
\* returned what s_prefs_open holds afterwards
RanInterpreter ==
  \E r \in {node_interface_on_packet(St(node, nvs, <<>>, FALSE), call'.in,
                                     Env(g_ok, node'.s_prefs_open, call'.up))} :
    /\ node' = r.node
    /\ nvs' = r.nvs
    /\ call'.ev \in {r.ev, DropLastSend(r.ev)}

\* the step that hands a frame to on_slip_packet
DeliveryStep ==
  (pc = "idle" /\ Delivered') =>
    /\ g_handler = "custom" =>
         /\ pc' = "returned"
         /\ call'.ev = <<Ev("handler", call'.in)>>
         /\ UNCHANGED <<node, nvs>>
    /\ g_handler # "custom" =>
         /\ \A i \in 1..Len(call'.ev) : call'.ev[i].k # "handler"
         /\ RanInterpreter

C20_WitnessNull ==
  /\ Delivered
  /\ g_handler = "null"
  /\ Len(Out) = 1

\* the call tried to open the store: once, before any write, with this result
TriedOpen(ok) ==
  \E i \in 1..Len(call.ev) :
    /\ call.ev[i] = EvBegin(ok)
    /\ \A j \in 1..Len(call.ev) : (j # i => call.ev[j].k # "nvs_begin")
    /\ \A j \in 1..i : call.ev[j].k \notin {"nvs_put", "send"}

\* the change a valid SET_ID or SET_PARAM asks for is in memory and answered RESP_OK
AppliedAndOk ==
  IF ReqVerb = SET_ID
  THEN /\ CStr(node.s_id) = SetIdValue
       /\ Len(Out) = 2
       /\ Out[1] = OkId(ReqSeq, SetIdValue)
  ELSE C8_Echo

\* C21: a valid SET_ID or SET_PARAM handled while the store is not open tries to
\* open it (every such request does, also after earlier failures); when the
\* store cannot be opened the change is applied in memory all the same, the
\* answer is RESP_OK and the store is left as it was; when it opens, the
\* configuration is written.
C21_Case == (C2_Case \/ C8_Case) /\ ~call.pre.s_prefs_open

C21_StoreClosed ==
  C21_Case =>
    /\ pc = "returned"
    /\ AppliedAndOk
    /\ TriedOpen(node.s_prefs_open)
    /\ ~node.s_prefs_open => (~Wrote /\ nvs = call.pre_nvs)
    /\ node.s_prefs_open => PersistedBeforeResponse

\* C21: at every moment of every run, a valid SET_ID or SET_PARAM handled while
\* the store was not open has been applied in memory and answered RESP_OK after
\* one attempt to open the store, and has left the store unchanged if the
\* attempt failed; the attempt is made again by every such call.
C21_Always == []C21_StoreClosed

\* C21 witness: the store failed to open at boot and at a first SET_PARAM, whose
\* change is in memory only; it fails again at a valid SET_ID
C21_Witness ==
  /\ C21_Case
  /\ ReqVerb = SET_ID
  /\ ~node.s_prefs_open
  /\ call.pre.s_sf # DefaultNode.s_sf
  /\ call.pre_nvs = NoStore
  /\ CStr(node.s_id) # CStr(DefaultNode.s_id)

\* C21, the retry that succeeds: the store opens at the second valid request
C21_WitnessRetry ==
  /\ C21_Case
  /\ call.pre.s_sf # DefaultNode.s_sf
  /\ call.pre_nvs = NoStore
  /\ node.s_prefs_open
  /\ Wrote

\* setup() has just run: the globals were reset and node_interface_begin() loaded them
Restarted == pc = "returned" /\ call.kind = "setup"

\* the configuration is the one of the static initialisers
HoldsDefaults(n) ==
  /\ CStr(n.s_id) = CStr(DefaultNode.s_id)
  /\ CStr(n.s_alias) = CStr(DefaultNode.s_alias)
  /\ \A fld \in ParamFields \ {"s_alias"} : n[fld] = DefaultNode[fld]

\* C22: the store always holds the configuration of the last SET_ID or SET_PARAM
\* that was answered RESP_OK with the store open (such a call leaves in the store
\* the values it answers with, and no other call changes the store), and a
\* restart puts exactly the stored ID, alias and parameters back in memory; a
\* restart with an empty store, or with a store that cannot be opened, leaves
\* the defaults.
C22_Restart ==
  /\ (PacketCall /\ Wrote) =>
       /\ pc = "returned"
       /\ ReqVerb \in {SET_ID, SET_PARAM}
       /\ Out[1][1] = RESP_OK
       /\ StoreHolds(nvs, node)
  /\ (PacketCall /\ ~Wrote) => nvs = call.pre_nvs
  /\ Restarted =>
       /\ nvs = call.pre_nvs
       /\ (node.s_prefs_open /\ nvs.written) => StoreHolds(nvs, node)
       /\ ~(node.s_prefs_open /\ nvs.written) => HoldsDefaults(node)

\* C22: at every moment of every run, a node that has just restarted holds the
\* persisted configuration, or the defaults if the store is empty or cannot be
\* opened.
C22_Always == []C22_Restart

\* C22 witness: a restart that brought back an alias and an SF other than the defaults
C22_Witness ==
  /\ Restarted
  /\ node.s_prefs_open
  /\ nvs.written
  /\ node.s_sf # DefaultNode.s_sf

\* C22, the other case: a restart with a written store that cannot be opened
C22_WitnessClosed ==
  /\ Restarted
  /\ ~node.s_prefs_open
  /\ nvs.written
  /\ nvs.sf # DefaultNode.s_sf

\* the tags SET_PARAM can set
SettableSet == { EchoOrder[i] : i \in 1..Len(EchoOrder) }

\* a GET_PARAM request for the seven diagnostics tags, and the answer to it at
\* boot: RSSI -42, SNR 7, VBAT 3700, TEMP 215, FREE_MEM 123456, FREE_FLASH
\* 654321, LOG_COUNT 0 on the wire
DiagAsk == Req(GET_PARAM, HostSeq, Cat([i \in 1..Len(DiagTags) |-> <<DiagTags[i], 0>>]))

DiagAtBoot ==
  Req(RESP_OK, HostSeq,
      <<TAG_RSSI_DBM, 2, 214, 255, TAG_SNR_DB, 1, 7, TAG_VBAT_MV, 2, 116, 14,
        TAG_TEMP_C10, 2, 215, 0, TAG_FREE_MEM, 4, 64, 226, 1, 0,
        TAG_FREE_FLASH, 4, 241, 251, 9, 0, TAG_LOG_COUNT, 2, 0, 0>>)

\* C23: a SET_PARAM whose records carry only tags that are not settable
\* (diagnostics, TAG_ID, system tags, unknown tags) is answered RESP_OK and
\* changes no configuration field; whatever frames were handled before, the
\* values the node reports for the diagnostics tags are those of boot.
C23_Case ==
  /\ WellFormedReq(SET_PARAM)
  /\ LET req == Recs(ReqFrame)
     IN \A i \in 1..Len(req) : req[i].tag \notin SettableSet

C23_ReadOnlyTags ==
  /\ C23_Case =>
       /\ C8_Echo
       /\ \A fld \in ConfigFields : node[fld] = call.pre[fld]
  /\ pc = "idle" => Answer(node, DiagAsk) = <<DiagAtBoot>>

\* C23: at every moment of every run, a SET_PARAM of non-settable tags only
\* has been answered RESP_OK without changing a configuration field, and the
\* diagnostics read as they did at boot.
C23_Always == []C23_ReadOnlyTags

\* C23 witness: a SET_PARAM that carries a value for each of the seven
\* diagnostics tags, sent to a node whose SF had been changed
C23_Witness ==
  /\ C23_Case
  /\ Len(Recs(ReqFrame)) = Len(DiagTags)
  /\ TagsOf(ReqFrame) = DiagTags
  /\ call.pre.s_sf # DefaultNode.s_sf
  /\ Len(Out) = 1

-----------------------------------------------------------------------------
(* The TLV codec on its own: a frame is built with frame_begin, tlv_put and
   tlv_put_le and closed with frame_end, or is given as raw bytes, and is then
   searched with tlv_find *)

\* the most records a built frame holds
MaxRecs == 2

\* the tags written, and the tags searched for
PutTags == {TAG_ID, TAG_SF}

FindTags == PutTags \cup {TAG_MODE}

\* the byte strings handed to tlv_put, of length 0, 2, 253, 254 and 255
PutStrings == {<<>>, <<0, 192>>, Rep(219, 253), Rep(65, 254), Rep(66, 255)}

\* the integers handed to tlv_put_le<T>, T = uint8_t, uint16_t, uint32_t, int8_t, int16_t
PutInts ==
  { [w |-> 1, signed |-> FALSE, v |-> x] : x \in {0, 200} } \cup
  { [w |-> 2, signed |-> FALSE, v |-> x] : x \in {258, 65535} } \cup
  { [w |-> 4, signed |-> FALSE, v |-> x] : x \in {16909060, 2147483647} } \cup
  { [w |-> 1, signed |-> TRUE, v |-> x] : x \in {-128, -1} } \cup
  { [w |-> 2, signed |-> TRUE, v |-> x] : x \in {-32768, -2, 32767} }

\* raw frames: shorter than a header, cut short of their declared region, with
\* bytes behind the region, with a record that runs past the region, with a
\* repeated tag, with a lone last byte
RawFrames ==
  Inputs \cup
  { In(<<SET_ID, 0, HostSeq, 0>>),
    InT(<<SET_ID, 0, HostSeq, 5, TAG_ID, 3, 65>>, <<66, 67>>),
    In(<<SET_ID, 0, HostSeq, 2, TAG_SF, 0, TAG_ID, 1, 65>>),
    In(<<SET_ID, 0, HostSeq, 2, TAG_SF, 5, 0, 0, 0, 0, 0, TAG_ID, 1, 65>>),
    In(<<SET_ID, 0, HostSeq, 5, TAG_SF, 9, 0, TAG_ID, 0>>),
    InT(<<SET_ID, 0, HostSeq, 3, TAG_ID, 5, 65>>, <<66, 67, 68, 69>>),
    In(<<SET_ID, 0, HostSeq, 9, TAG_ID, 1, 65, TAG_SF, 1, 7, TAG_ID, 1, 66>>),
    In(<<SET_ID, 0, HostSeq, 4, TAG_SF, 1, 7, TAG_ID>>),
    In(<<SET_ID, 0, HostSeq, 1, TAG_ID>>) }

\* the indices i at which tlv_find(frame, len, tag, out_len) evaluates frame[i]
tlv_find_idx(in, tag) ==
  IF Len(in.frame) < 4 THEN {}
  ELSE {3} \cup (IF 4 + Rd(in, 3) > Len(in.frame) THEN {}
                 ELSE FindIdx(in, 4, 4 + Rd(in, 3), tag))

\* the codec's state: the frame, what was put into it, the tag searched for,
\* what tlv_find returned and what it read
Codec(in, put) == [kind |-> "codec", in |-> in, put |-> put, tag |-> 0,
                   res |-> NotFound, idx |-> {}]

CodecInit ==
  /\ \/ /\ pc = "build"
        /\ \E verb \in {RESP_OK, SET_ID} : call = Codec(In(frame_begin(verb, HostSeq)), <<>>)
     \/ /\ pc = "ready"
        /\ \E in \in RawFrames : call = Codec(in, <<>>)
  /\ node = DefaultNode
  /\ nvs = NoStore
  /\ g_ok = FALSE
  /\ millis_s = 0
  /\ nsteps = 0
  /\ g_handler = "null"

\* tlv_put(buf, i, tag, p, len)
TlvPut ==
  /\ pc = "build"
  /\ Len(call.put) < MaxRecs
  /\ \E tag \in PutTags, p \in PutStrings :
       call' = [call EXCEPT
                  !.in = In(tlv_put(call.in.frame, tag, p, Len(p))),
                  !.put = Append(@, [tag |-> tag, le |-> FALSE, p |-> p,
                                     w |-> 0, signed |-> FALSE, v |-> 0])]
  /\ UNCHANGED <<pc, node, nvs, g_ok, millis_s, nsteps, g_handler>>

\* tlv_put_le<T>(buf, i, tag, value)
TlvPutLe ==
  /\ pc = "build"
  /\ Len(call.put) < MaxRecs
  /\ \E tag \in PutTags, x \in PutInts :
       call' = [call EXCEPT
                  !.in = In(tlv_put_le(call.in.frame, tag, x.v, x.w)),
                  !.put = Append(@, [tag |-> tag, le |-> TRUE, p |-> LEBytes(x.v, x.w),
                                     w |-> x.w, signed |-> x.signed, v |-> x.v])]
  /\ UNCHANGED <<pc, node, nvs, g_ok, millis_s, nsteps, g_handler>>

\* frame_end(buf, i)
FrameEnd ==
  /\ pc = "build"
  /\ pc' = "ready"
  /\ call' = [call EXCEPT !.in = In(frame_end(call.in.frame))]
  /\ UNCHANGED <<node, nvs, g_ok, millis_s, nsteps, g_handler>>

\* tlv_find(frame, len, tag, out_len)
TlvFind ==
  /\ pc = "ready"
  /\ pc' = "found"
  /\ \E tag \in FindTags :
       call' = [call EXCEPT !.tag = tag,
                            !.res = tlv_find(call.in, tag),
                            !.idx = tlv_find_idx(call.in, tag)]
  /\ UNCHANGED <<node, nvs, g_ok, millis_s, nsteps, g_handler>>

CodecNext == TlvPut \/ TlvPutLe \/ FrameEnd \/ TlvFind

SpecCodec == CodecInit /\ [][CodecNext]_vars

\* the record put k-th is the first one put with its tag
FirstPut(k) == \A j \in 1..(k - 1) : call.put[j].tag # call.put[k].tag

\* tlv_find handed back the value bytes and the length of the record put k-th
FoundPut(k) ==
  /\ call.res.found
  /\ call.res.L = Len(call.put[k].p)
  /\ RdBytes(call.in, call.res.off, call.res.L) = call.put[k].p

\* tlv_read_le<T> of what was found gives back the integer put k-th
ReadPut(k) ==
  tlv_read_le(RdBytes(call.in, call.res.off, call.res.L), call.res.L,
              call.put[k].w, call.put[k].signed) = [ok |-> TRUE, v |-> call.put[k].v]

\* C25: for every tag and value written with tlv_put (0..255 bytes) or
\* tlv_put_le (u8, u16, u32, i8, i16) into a frame closed with frame_end,
\* tlv_find returns that record's value bytes and length and tlv_read_le of
\* the same type returns the integer, when the record is the first with its tag.
C25_RoundTrip ==
  pc = "found" =>
    \A k \in 1..Len(call.put) :
      (call.put[k].tag = call.tag /\ FirstPut(k)) =>
        /\ FoundPut(k)
        /\ call.put[k].le => ReadPut(k)

\* the offset in the frame of the value of the k-th record of a region
RECURSIVE ValueOff(_, _)
ValueOff(recs, k) ==
  IF k = 1 THEN 6 ELSE ValueOff(recs, k - 1) + Len(recs[k - 1].val) + 2

\* the complete records at the start of the region the header declares
RegionRecs == ParseTlvs(SubSeq(call.in.frame, 5, 4 + call.in.frame[4])).recs

\* C26: tlv_find reads only indices below min(len, 4 + frame[3]); it returns
\* not-found when 4 + frame[3] exceeds len; otherwise it returns the first
\* record with the tag, and not-found when no record with the tag comes before
\* the first record whose declared length runs past the region end.
C26_Find ==
  pc = "found" =>
    LET f == call.in.frame
        len == Len(f)
    IN IF len < 4 THEN ~call.res.found /\ call.idx = {}
       ELSE /\ \A i \in call.idx : i < Min(len, 4 + f[4])
            /\ IF 4 + f[4] > len THEN ~call.res.found
               ELSE LET recs == RegionRecs
                        k == FirstOf(recs, call.tag)
                    IN IF k = 0 THEN ~call.res.found
                       ELSE call.res = [found |-> TRUE, off |-> ValueOff(recs, k),
                                        L |-> Len(recs[k].val)]

\* a record before any match runs past the region end, the tag occurs behind
\* it in the frame, and tlv_find has returned not-found
C26_Witness ==
  /\ pc = "found"
  /\ Len(call.in.frame) >= 4
  /\ Len(call.in.frame) >= 4 + call.in.frame[4]
  /\ call.in.frame[4] >= 2
  /\ ~ParseTlvs(SubSeq(call.in.frame, 5, 4 + call.in.frame[4])).ok
  /\ \E i \in 5..Len(call.in.frame) : call.in.frame[i] = call.tag
  /\ call.idx # {}
  /\ ~call.res.found

\* the tag is put twice and tlv_find has returned the first of the two records
C26_WitnessFirst ==
  /\ pc = "found"
  /\ Len(call.put) = 2
  /\ call.put[1].tag = call.tag
  /\ call.put[2].tag = call.tag
  /\ call.put[1].p # call.put[2].p
  /\ call.res.found
  /\ call.res.off = 6

\* C27: after any sequence of input frames a well-formed GET_ID with seq s is
\* answered with RESP_OK, seq s and TAG_ID = the current node ID, and no input
\* puts the interpreter in a state where it stops answering.
C27_KeepsAnswering ==
  /\ pc # "crashed"
  /\ (pc = "returned" /\ WellFormedReq(GET_ID)) => Out = <<OkId(ReqSeq, CStr(node.s_id))>>

-----------------------------------------------------------------------------
(* node_protocol_send_text on its own *)

\* the longest string handed to node_protocol_send_text
MaxText == 300

\* strings of 0, 1, 2, 5, 253 .. 257 and MaxText bytes, of letters, of the
\* framing delimiter and escape bytes, of bytes that would read as a TLV
TextArgs ==
  { [null |-> TRUE, text |-> <<>>] } \cup
  { [null |-> FALSE, text |-> Rep(c, n)] :
      c \in {65, 192, 219, 255, 1, 32},
      n \in {0, 1, 2, 5, 253, 254, 255, 256, 257, MaxText} } \cup
  { [null |-> FALSE, text |-> t] : t \in {Str_hello, <<TAG_ID, 1, 65>>, <<65>> \o Rep(66, 255)} }

\* a variant of node_protocol_send_text that does not clamp the length
node_protocol_send_text_unclamped(s, str) ==
  IF str.null THEN s
  ELSE LET n == Len(str.text)
       IN [s EXCEPT !.ev = Append(@, EvSend(<<MSG, 0, 0, n % 256>> \o SubSeq(str.text, 1, n)))]

\* node_protocol_send_text(s): s is the string's bytes followed by its NUL
node_protocol_send_text(s, str) ==
  IF str.null THEN s
  ELSE LET mem == str.text \o <<0>>
           n == Strnlen(mem, 255)
       IN [s EXCEPT !.ev = Append(@, EvSend(<<MSG, 0, 0, n>> \o SubSeq(mem, 1, n)))]

TextInit ==
  /\ pc = "text"
  /\ \E str \in TextArgs : call = [kind |-> "text", str |-> str, ev |-> <<>>]
  /\ node = DefaultNode
  /\ nvs = NoStore
  /\ g_ok = FALSE
  /\ millis_s = 0
  /\ nsteps = 0
  /\ g_handler = "null"

\* the application calls node_protocol_send_text(s)
SendText ==
  /\ pc = "text"
  /\ pc' = "sent"
  /\ \E r \in {node_protocol_send_text(St(node, nvs, <<>>, FALSE), call.str)} :
       call' = [call EXCEPT !.ev = r.ev]
  /\ UNCHANGED <<node, nvs, g_ok, millis_s, nsteps, g_handler>>

TextNext == SendText

SpecText == TextInit /\ [][TextNext]_vars

\* C29: node_protocol_send_text(s) with a non-null s sends exactly one frame:
\* verb MSG, flags 0, seq 0, length byte n = min(strlen(s), 255), then the
\* first n bytes of s and nothing else; with a null pointer it sends nothing.
C29_SendText ==
  pc = "sent" =>
    IF call.str.null THEN call.ev = <<>>
    ELSE LET n == Min(Len(call.str.text), 255)
         IN /\ Len(call.ev) = 1
            /\ Out = << <<MSG, 0, 0, n>> \o [i \in 1..n |-> call.str.text[i]] >>

\* a string longer than 255 bytes was sent, clamped to 255
C29_Witness ==
  /\ pc = "sent"
  /\ ~call.str.null
  /\ Len(call.str.text) > 255
  /\ Len(Out) = 1
  /\ Out[1][4] = 255
  /\ Len(Out[1]) = 259

\* the null pointer was passed and nothing was sent
C29_WitnessNull == pc = "sent" /\ call.str.null /\ call.ev = <<>>

-----------------------------------------------------------------------------
(* SET_ID: the order of what the call does *)

\* the call handled a SET_ID and answered RESP_OK
SetIdOk ==
  /\ HasHeader
  /\ ReqVerb = SET_ID
  /\ Len(Out) >= 1
  /\ Len(Out[1]) >= 4
  /\ Out[1][1] = RESP_OK

\* the display is told the new ID (a no-op without a display), then RESP_OK
\* with the seq of the request, then the hello with seq 0, both with the new ID
AfterPersist ==
  (IF g_ok THEN <<Ev("draw_id", CStr(node.s_id))>> ELSE <<>>) \o
  <<EvSend(OkId(ReqSeq, CStr(node.s_id))), EvSend(Hello(CStr(node.s_id)))>>

\* the ID held after the call is the valid ID the request carries
Committed == C2_Case => CStr(node.s_id) = SetIdValue

\* C30 as stated: on a successful SET_ID the ID is committed in memory, the
\* configuration is persisted, the display is notified, RESP_OK with the
\* request seq is sent and then the hello with seq 0, in this order, both
\* frames carrying the new ID.
C30_AsStated ==
  SetIdOk =>
    /\ pc = "returned"
    /\ Committed
    /\ call.ev = (IF call.pre.s_prefs_open THEN <<EvPut>> ELSE <<EvBegin(TRUE), EvPut>>)
                 \o AfterPersist
    /\ StoreHolds(nvs, node)

\* C30: on a successful SET_ID the ID is committed in memory, then the
\* configuration is persisted if the store is open or can be opened (else the
\* store is left as it was), then the display is notified, then RESP_OK with
\* the request seq is sent, then the hello with seq 0; both frames carry the
\* new ID.
C30_Order ==
  SetIdOk =>
    /\ pc = "returned"
    /\ Committed
    /\ call.ev = (IF call.pre.s_prefs_open THEN <<EvPut>>
                  ELSE IF Wrote THEN <<EvBegin(TRUE), EvPut>>
                  ELSE <<EvBegin(FALSE)>>) \o AfterPersist
    /\ IF Wrote THEN StoreHolds(nvs, node) ELSE nvs = call.pre_nvs

\* C30: at every moment of every run, a SET_ID answered RESP_OK has committed
\* the ID, then persisted it if the store could be opened, then notified the
\* display, then sent RESP_OK and then the hello, both with the new ID.
C30_Always == []C30_Order

\* a SET_ID changed the ID on a node with a display and an open store: all
\* four events happened
C30_Witness ==
  /\ SetIdOk
  /\ g_ok
  /\ Wrote
  /\ Len(call.ev) = 4
  /\ CStr(node.s_id) # CStr(call.pre.s_id)
  /\ ReqSeq # HelloSeq

-----------------------------------------------------------------------------
(* SET_ID: which TAG_ID record counts *)

\* the number of records with the tag
RECURSIVE CountOf(_, _)
CountOf(recs, tag) ==
  IF recs = <<>> THEN 0
  ELSE (IF Head(recs).tag = tag THEN 1 ELSE 0) + CountOf(Tail(recs), tag)

\* what the node, in the state before the call, does with the request f
Redo(f) ==
  node_interface_on_packet(St(call.pre, call.pre_nvs, <<>>, FALSE), In(f),
                           Env(g_ok, TRUE, call.up))

\* C31: a SET_ID with no TAG_ID record, or whose first TAG_ID record is empty,
\* is answered RESP_ERR and leaves the ID unchanged; of several TAG_ID records
\* only the first is validated and applied: the frames sent and the ID are
\* those of the request that carries the first TAG_ID record alone.
C31_FirstTagId ==
  WellFormedReq(SET_ID) =>
    LET recs == Recs(ReqFrame)
        k == FirstOf(recs, TAG_ID)
    IN /\ (k = 0 \/ SetIdValue = <<>>) =>
            /\ pc = "returned"
            /\ Out = <<Err(ReqSeq)>>
            /\ node.s_id = call.pre.s_id
       /\ CountOf(recs, TAG_ID) >= 2 =>
            LET one == Redo(Req(SET_ID, ReqSeq, Rec(TAG_ID, SetIdValue)))
            IN /\ pc = "returned"
               /\ Out = Sent(one.ev)
               /\ node.s_id = one.node.s_id

\* C31: at every moment of every run, a SET_ID without a TAG_ID record or with
\* an empty first one has been answered RESP_ERR and has kept the ID, and a
\* SET_ID with several TAG_ID records has done what its first one alone does.
C31_Always == []C31_FirstTagId

\* an empty TAG_ID record came first, a valid one second, and the ID was kept
C31_Witness ==
  /\ WellFormedReq(SET_ID)
  /\ CountOf(Recs(ReqFrame), TAG_ID) = 2
  /\ SetIdValue = <<>>
  /\ Recs(ReqFrame)[2].val = Str_N30
  /\ Out = <<Err(ReqSeq)>>
  /\ CStr(node.s_id) # Str_N30

\* two valid TAG_ID records: the first one became the ID
C31_WitnessFirst ==
  /\ WellFormedReq(SET_ID)
  /\ CountOf(Recs(ReqFrame), TAG_ID) = 2
  /\ Recs(ReqFrame)[2].val = Str_Zed
  /\ CStr(node.s_id) = Str_N30
  /\ CStr(call.pre.s_id) # Str_N30
  /\ Len(Out) = 2

-----------------------------------------------------------------------------
(* SET_PARAM: the alias *)

\* the value of the last TAG_ALIAS record of the request
AliasValue ==
  LET recs == Recs(ReqFrame)
  IN recs[LastOf(recs, TAG_ALIAS)].val

\* the request is a SET_PARAM answered RESP_OK that carries an alias of 0..31
\* bytes, none of them 0
C32_Case ==
  /\ WellFormedReq(SET_PARAM)
  /\ pc = "returned"
  /\ Len(Out) = 1
  /\ Out[1][1] = RESP_OK
  /\ LastOf(Recs(ReqFrame), TAG_ALIAS) # 0
  /\ Len(AliasValue) <= IdCap - 1
  /\ \A i \in 1..Len(AliasValue) : AliasValue[i] # 0

\* the alias a frame reports: the value of its first TAG_ALIAS record
AliasIn(f) ==
  LET recs == Recs(f)
  IN recs[FirstOf(recs, TAG_ALIAS)].val

\* C32: after a SET_PARAM answered RESP_OK that carries a TAG_ALIAS record with
\* a value v of 0..31 bytes, the alias in the response and in a following
\* GET_PARAM and GET_ALL is exactly v, whatever the alias was before.
C32_Alias ==
  C32_Case =>
    /\ AliasIn(Out[1]) = AliasValue
    /\ Answer(node, Req(GET_PARAM, HostSeq, <<TAG_ALIAS, 0>>)) =
         <<Req(RESP_OK, HostSeq, Rec(TAG_ALIAS, AliasValue))>>
    /\ AliasIn(Answer(node, Req(GET_ALL, HostSeq, <<>>))[1]) = AliasValue

-----------------------------------------------------------------------------
(* The response buffers *)

\* C33: for every request and every reachable state the response under
\* construction never grows past its buffer: 64 bytes for GET_ID, PING, SET_ID,
\* MSG and the hello, 128 bytes for GET_PARAM and SET_PARAM, 192 bytes for GET_ALL.
C33_WithinBuffer == ~call.ovf

-----------------------------------------------------------------------------
(* The store and the memory *)

\* C34: with the store open, after every completed call of the interpreter the
\* persisted ID, alias and parameters equal those in memory, once a mutation
\* has been persisted.
C34_StoreIsMemory ==
  (PacketCall /\ pc = "returned" /\ call.pre.s_prefs_open /\ nvs.written) =>
    StoreHolds(nvs, node)

\* the persisted value of a settable numeric tag
Stored(store, t) ==
  CASE t = TAG_FREQ_HZ -> store.freq_hz
    [] t = TAG_SF -> store.sf
    [] t = TAG_BW_HZ -> store.bw_hz
    [] t = TAG_CR -> store.cr
    [] t = TAG_TX_PWR_DBM -> store.tx_pwr
    [] t = TAG_CHAN -> store.chan
    [] t = TAG_MODE -> store.mode
    [] t = TAG_HOPS -> store.hops
    [] t = TAG_BEACON_SEC -> store.beacon_s
    [] t = TAG_BUF_SIZE -> store.buf_size
    [] t = TAG_ACK_MODE -> store.ack_mode

\* the request carries the value v for the tag t
Carries(f, t, v) ==
  /\ IsFrame(f)
  /\ \E i \in 1..Len(Recs(f)) :
       /\ Recs(f)[i].tag = t
       /\ Len(Recs(f)[i].val) = WireWidth(t)
       /\ WireValue(Recs(f)[i].val, t) = v

\* the second operation of a run is a completed call for a well-formed frame
\* that writes the store for the first time, the store having been open and
\* empty before it: no request before it was answered RESP_OK
FirstPersist ==
  /\ PacketCall /\ pc = "returned" /\ nsteps = 2 /\ IsFrame(ReqFrame)
  /\ call.pre.s_prefs_open /\ ~call.pre_nvs.written /\ nvs.written

\* C35: every persisted value is a boot default or was carried by a request
\* answered RESP_OK; a value carried only by a SET_PARAM answered RESP_ERR is
\* not persisted by a later successful SET_ID or SET_PARAM.
C35_OnlyAccepted ==
  FirstPersist =>
    \A t \in SettableNumeric :
      \/ Stored(nvs, t) = DefaultNode[FieldOf(t)]
      \/ /\ Len(Out) >= 1 /\ Out[1][1] = RESP_OK
         /\ Carries(ReqFrame, t, Stored(nvs, t))

-----------------------------------------------------------------------------
(* Invariants of the configuration *)

\* C36: from the defaults, and from a store this program wrote, in every
\* reachable state the spreading factor is in 7..12, the coding rate in 5..8
\* and the ack mode 0 or 1, in memory and in the store, whatever frames are
\* received, SET_PARAM frames answered RESP_ERR included.
C36_Ranges ==
  /\ node.s_sf \in 7..12 /\ node.s_cr \in 5..8 /\ node.s_ack_mode \in {0, 1}
  /\ nvs.written => (nvs.sf \in 7..12 /\ nvs.cr \in 5..8 /\ nvs.ack_mode \in {0, 1})

\* a SET_PARAM that carries an out-of-range record behind a record it applied
\* has been answered RESP_ERR
C36_Witness ==
  /\ PacketCall /\ pc = "returned" /\ IsFrame(ReqFrame) /\ ReqVerb = SET_PARAM
  /\ Out = <<Err(ReqSeq)>>
  /\ \E i \in 1..Len(Recs(ReqFrame)) :
       LET r == Recs(ReqFrame)[i]
       IN /\ r.tag \in {TAG_SF, TAG_CR, TAG_ACK_MODE}
          /\ Len(r.val) = 1 /\ ~InRange(r.tag, WireValue(r.val, r.tag))
  /\ node.s_sf # call.pre.s_sf

\* a restart has loaded a store that a SET_PARAM wrote
C36_WitnessStore ==
  Restarted /\ nvs.written /\ node.s_sf = nvs.sf /\ node.s_sf # DefaultNode.s_sf

\* the buffer holds a 0, and s is the string before it
Terminated(buf) == \E i \in 1..Len(buf) : buf[i] = 0

\* C37: from the default ID, in every reachable state the node ID is a
\* NUL-terminated string of 1..31 characters of [A-Za-z0-9_-], the alias is
\* NUL-terminated with at most 31 characters, and the last-text buffer is
\* NUL-terminated with at most 63 characters.
C37_Strings ==
  /\ Len(node.s_id) = IdCap /\ Terminated(node.s_id)
  /\ Len(CStr(node.s_id)) \in 1..(IdCap - 1)
  /\ \A i \in 1..Len(CStr(node.s_id)) : node.s_id[i] \in IdAlphabet
  /\ Len(node.s_alias) = IdCap /\ Terminated(node.s_alias)
  /\ Len(CStr(node.s_alias)) <= IdCap - 1
  /\ Len(node.s_last_text) = TextCap /\ Terminated(node.s_last_text)
  /\ Len(CStr(node.s_last_text)) <= TextCap - 1

\* a SET_ID whose value is longer than the buffer has been accepted
C37_Witness ==
  /\ PacketCall /\ pc = "returned" /\ WellFormedReq(SET_ID)
  /\ Len(SetIdValue) >= IdCap /\ Wrote
  /\ Len(CStr(node.s_id)) = IdCap - 1

\* a SET_PARAM whose alias is longer than the buffer has been accepted
C37_WitnessAlias ==
  /\ PacketCall /\ pc = "returned" /\ WellFormedReq(SET_PARAM)
  /\ \E i \in 1..Len(Recs(ReqFrame)) :
       Recs(ReqFrame)[i].tag = TAG_ALIAS /\ Len(Recs(ReqFrame)[i].val) >= IdCap
  /\ Len(CStr(node.s_alias)) = IdCap - 1

\* a MSG whose text is longer than the buffer has been received
C37_WitnessText ==
  /\ PacketCall /\ pc = "returned" /\ HasHeader /\ ReqVerb = MSG
  /\ Len(ReqFrame) = 4 + ReqFrame[4] /\ ReqFrame[4] >= TextCap
  /\ Len(CStr(node.s_last_text)) = TextCap - 1

-----------------------------------------------------------------------------
(* One mutating verb for each part of the state *)

\* the alias or a radio / behavior parameter differs between the two
ParamsDiffer(n1, n2) == \E fld \in ParamFields : n1[fld] # n2[fld]

\* C38: in a call of the interpreter the node ID changes only when the verb is
\* SET_ID, the alias and the parameters only when it is SET_PARAM, and the
\* last-text buffer only when it is MSG; a TAG_ID record in a SET_PARAM leaves
\* the ID alone and a SET_ID leaves every parameter alone.
C38_SingleVerb ==
  PacketCall =>
    /\ node.s_id # call.pre.s_id => (HasHeader /\ ReqVerb = SET_ID)
    /\ ParamsDiffer(node, call.pre) => (HasHeader /\ ReqVerb = SET_PARAM)
    /\ node.s_last_text # call.pre.s_last_text => (HasHeader /\ ReqVerb = MSG)

\* a SET_PARAM that carries a TAG_ID record with another ID has been answered RESP_OK
C38_Witness ==
  /\ PacketCall /\ pc = "returned" /\ WellFormedReq(SET_PARAM)
  /\ \E i \in 1..Len(Recs(ReqFrame)) :
       /\ Recs(ReqFrame)[i].tag = TAG_ID
       /\ Recs(ReqFrame)[i].val # CStr(call.pre.s_id)
  /\ Len(Out) = 1 /\ Out[1][1] = RESP_OK
  /\ node.s_id = call.pre.s_id

\* a SET_ID that carries a TAG_ALIAS record with another alias has been accepted
C38_WitnessSetId ==
  /\ PacketCall /\ pc = "returned" /\ WellFormedReq(SET_ID)
  /\ \E i \in 1..Len(Recs(ReqFrame)) :
       /\ Recs(ReqFrame)[i].tag = TAG_ALIAS
       /\ Recs(ReqFrame)[i].val # CStr(call.pre.s_alias)
  /\ node.s_id # call.pre.s_id
  /\ ~ParamsDiffer(node, call.pre)

-----------------------------------------------------------------------------
(* The display has no influence on the protocol *)

DrawKinds == {"draw_boot", "draw_id", "draw_two_lines"}

NoDraw(ev) == \A i \in 1..Len(ev) : ev[i].k \notin DrawKinds

\* the events that are not draw operations
NonDraw(ev) == SelectSeq(ev, LAMBDA x : x.k \notin DrawKinds)

\* what the interpreter does with the frame of the call in the state before the
\* call, with the display available or not; begin() succeeds iff the store is
\* open after the call
WithDisplay(disp) ==
  node_interface_on_packet(St(call.pre, call.pre_nvs, <<>>, FALSE), call.in,
                           Env(disp, node.s_prefs_open, call.up))

\* C39: the frames on the wire, the configuration, the last-text buffer and the
\* store after a call are those the node produces for the same frame in the same
\* state with the display in the other condition, in every reachable state and
\* hence for every sequence of frames; without the display no draw operation is
\* performed.
C39_DisplayIndependent ==
  /\ ~g_ok => NoDraw(call.ev)
  /\ Restarted => Sent(call.ev) = <<Hello(CStr(node.s_id))>>
  /\ (PacketCall /\ pc = "returned") =>
       LET other == WithDisplay(~g_ok)
       IN /\ other.node = node /\ other.nvs = nvs
          /\ Sent(other.ev) = Out
          /\ NonDraw(other.ev) = NonDraw(call.ev)
          /\ g_ok => NoDraw(other.ev)

\* C39: at every moment of every run, the frames on the wire, the configuration,
\* the last-text buffer and the store are those the node produces with the
\* display in the other condition, and no draw operation has been performed
\* without the display.
C39_Always == []C39_DisplayIndependent

\* a MSG has been received and answered without the display, and the same
\* frame would have been drawn with it
C39_Witness ==
  /\ PacketCall /\ pc = "returned" /\ HasHeader /\ ReqVerb = MSG
  /\ ~g_ok /\ Len(Out) = 1 /\ Out[1][1] = RESP_OK
  /\ node.s_last_text # call.pre.s_last_text
  /\ ~NoDraw(WithDisplay(TRUE).ev)

\* a SET_ID has been accepted with the display, and the ID has been drawn
C39_WitnessDrawn ==
  /\ PacketCall /\ pc = "returned" /\ HasHeader /\ ReqVerb = SET_ID
  /\ g_ok /\ Wrote /\ ~NoDraw(call.ev)

=============================================================================
